---- MODULE Spec2Model ----
(***************************************************************************)
(* A model of hikari's asynchronous task coordination                      *)
(* (src/hikari/internal/aio.py: first_completed, all_of, destroy_loop) and *)
(* of the event factory's payload decoding                                 *)
(* (src/hikari/impl/event_factory.py), of the epoch conversions            *)
(* (src/hikari/internal/time.py), of the intent flags                      *)
(* (src/hikari/intents.py), of the fields of an embed                      *)
(* (src/hikari/embeds.py) and of the author predicates of the message      *)
(* events (src/hikari/events/message_events.py).                           *)
(*                                                                         *)
(* The asyncio semantics the primitives rest on are those of CPython 3.12: *)
(* Task.cancel forwards to the awaited future and sets _must_cancel when   *)
(* that future is already done; asyncio.gather(return_exceptions=False)    *)
(* completes with the first child exception or cancellation; wait_for is   *)
(* built on asyncio.timeout.                                               *)
(***************************************************************************)
EXTENDS Integers, Sequences, FiniteSets, TLC

\* Number of awaitables passed to first_completed / all_of.
NumOps == 3

Ops == 1..NumOps

\* Number of tasks on the loop handed to destroy_loop.
NumTasks == 2

VARIABLES
    prim,        \* which primitive runs: "first_completed", "all_of", or "none"
    fut,         \* fut[o]: state of the future made by ensure_future(aws[o])
    cancelReq,   \* cancelReq[o]: cancel() was called on o and it has not reacted yet
    onCancel,    \* onCancel[o]: how o's coroutine reacts to CancelledError
    timeout,     \* the timeout argument: "none", "zero" or "positive"
    timedOut,    \* the timeout has elapsed while the primitive was waiting
    pc,          \* where the primitive's coroutine is suspended
    idx,         \* the future the cleanup loop is awaiting
    primary,     \* the exception in flight when the finally block is entered
    outcome,     \* how the primitive ended
    first,       \* first future as_completed put on its done queue (0: none)
    cancelPending, \* the caller cancelled the primitive while it was waiting
    mustCancel,  \* Task._must_cancel of the primitive's task
    wasCancelled, \* history: the caller has cancelled the primitive
    gath,        \* state of the _GatheringFuture of all_of
    gathCancelReq, \* _GatheringFuture._cancel_requested
    retval,      \* the sequence all_of returned
    order,       \* history: the futures in the order they became done
    cancelCalls, \* history: futures that got a cancel() from the primitive
    extCancel,   \* history: somebody else cancelled one of the futures
    \* destroy_loop
    task,        \* task[t]: state of task t of the loop ("absent": not created)
    tCancelReq,  \* tCancelReq[t]: cancel() was called on t and it has not reacted
    tOnCancel,   \* tOnCancel[t]: how t's coroutine reacts to CancelledError
    tSpawns,     \* tSpawns[t]: t creates a new task while it is being cancelled
    remaining,   \* remaining_tasks, the snapshot destroy_loop takes
    mpc,         \* mpc[t]: where murder(t) is
    handlerCalls, \* handlerCalls[t]: loop.call_exception_handler calls for t
    dlpc,        \* where destroy_loop is
    dlOutcome,   \* how destroy_loop ended
    closed,      \* loop.is_closed()
    loopSet,     \* the loop is still set as the current event loop
    executorNI   \* shutdown_default_executor raises NotImplementedError

aioVars == <<prim, fut, cancelReq, onCancel, timeout, timedOut, pc, idx, primary,
             outcome, first, cancelPending, mustCancel, wasCancelled, gath,
             gathCancelReq, retval, order, cancelCalls, extCancel>>

dlVars == <<task, tCancelReq, tOnCancel, tSpawns, remaining, mpc, handlerCalls,
            dlpc, dlOutcome, closed, loopSet, executorNI>>

\* The event factory: one decode call.
VARIABLES
    efOp,        \* which deserialize_*_event method is called
    efPayload,   \* the JSON object handed to it
    efEvent,     \* what the call returned or raised
    efOld,       \* the old_messages argument: None or a mapping (its keys)
    efMemberCalls, \* the calls of entity_factory.deserialize_member it made
    efpc,        \* "idle", "ready" or "decoded"
    efApp,       \* self._app, the only attribute of the factory
    efCount,     \* history: the number of decode calls made on the factory
    efFailed,    \* history: an earlier decode call on the factory raised
    efRemembered \* history: one of the earlier decode calls, or None

efVars == <<efOp, efPayload, efEvent, efOld, efMemberCalls, efpc, efApp,
            efCount, efFailed, efRemembered>>

\* hikari.internal.time: one conversion of an epoch and back.
VARIABLES
    tmEpoch,     \* the Discord epoch in milliseconds handed in
    tmDatetime,  \* the datetime discord_epoch_to_datetime returned
    tmResult,    \* the epoch datetime_to_discord_epoch returned
    tmpc         \* "idle", "ready", "datetime" or "epoch"

tmVars == <<tmEpoch, tmDatetime, tmResult, tmpc>>

\* hikari.intents: one operation on an intents value.
VARIABLES
    inValue,     \* the intents value the operation is applied to
    inFlag,      \* the intent or combination given as the other operand
    inResult,    \* what the operation returned
    inpc         \* "idle", "ready", "privileged" or "removed"

inVars == <<inValue, inFlag, inResult, inpc>>

\* hikari.embeds: an embed and the calls made on it.
VARIABLES
    emEmbed,     \* the embed: its _title and its _fields
    emBefore,    \* the embed as it was before the last call
    emCall,      \* the last call: its name and its index argument
    emRaised,    \* the exception the last call raised, or "none"
    emCount      \* the number of calls made so far

emVars == <<emEmbed, emBefore, emCall, emRaised, emCount>>

\* hikari.events.message_events: one message event and its properties.
VARIABLES
    meKind,      \* "none", "create" or "update"
    meAuthor,    \* the author of the event's message, or UNDEFINED
    meWebhook,   \* the webhook id of the event's message, null or UNDEFINED
    meIsBot,     \* what is_bot returned, Unread before it is read
    meIsHuman,   \* what is_human returned, Unread before it is read
    meIsWebhook  \* what is_webhook returned, Unread before it is read

meVars == <<meKind, meAuthor, meWebhook, meIsBot, meIsHuman, meIsWebhook>>

\* The state of the value types: intents, embeds and message events.
dataVars == <<inVars, emVars, meVars>>

vars == <<aioVars, dlVars, efVars, tmVars, dataVars>>

FutStates == {"pending", "result", "exception", "cancelled"}
Terminal == {"result", "exception", "cancelled"}

\* An exception value: its class and, for an operation's own error, the operation.
Exc(kind, src) == [kind |-> kind, src |-> src]
NoExc == Exc("none", 0)
CancelledError == Exc("CancelledError", 0)
TimeoutError == Exc("TimeoutError", 0)
OpError(o) == Exc("OpError", o)
Running == Exc("running", 0)
Returned == Exc("return", 0)

\* The result value of operation o.
OpResult(o) == 100 + o

\* What a pending task becomes once CancelledError is thrown into its coroutine.
CancelReaction(how) ==
    CASE how = "cancelled" -> "cancelled"
      [] how = "raises" -> "exception"
      [] how = "returns" -> "result"

\* Future.result() / awaiting a done future: the exception it raises, if any.
AwaitDone(o) ==
    CASE fut[o] = "result" -> NoExc
      [] fut[o] = "exception" -> OpError(o)
      [] fut[o] = "cancelled" -> CancelledError

\* First future at or after i that the cleanup loop will cancel:
\* "if not f.done() and not f.cancelled()".
RECURSIVE NextPending(_, _)
NextPending(f, i) ==
    IF i > NumOps THEN NumOps + 1
    ELSE IF f[i] = "pending" THEN i
    ELSE NextPending(f, i + 1)

(***************************************************************************)
(* asyncio.gather over fs: the done callback of one child.                 *)
(***************************************************************************)
\* A result list in the order in which the children completed.
GatherResultsByCompletion(f) ==
    [i \in 1..NumOps |-> OpResult(order[i])]

\* The result list: one entry per child, in argument order.
GatherResults(f) ==
    [i \in 1..NumOps |-> OpResult(i)]

\* _done_callback of child o; last: every child's callback has now run
\* (nfinished == nfuts).
GatherCallback(g, f, o, creq, last) ==
    IF g.kind # "pending" THEN g
    ELSE IF f[o] = "cancelled" THEN CancelledError
    ELSE IF f[o] = "exception" THEN OpError(o)
    ELSE IF last
         THEN (IF creq THEN CancelledError ELSE Exc("result", 0))
    ELSE g

\* The callbacks of the children already done when gather is called run in
\* argument order.
RECURSIVE GatherFold(_, _, _, _)
GatherFold(g, f, i, creq) ==
    IF i > NumOps THEN g
    ELSE IF f[i] = "pending" THEN GatherFold(g, f, i + 1, creq)
    ELSE GatherFold(GatherCallback(g, f, i, creq,
                                   \A p \in Ops : f[p] \in Terminal /\ p <= i),
                    f, i + 1, creq)

GathPending == Exc("pending", 0)

(***************************************************************************)
(* Initial states: the instant the primitive is called.  Each awaitable is *)
(* either still pending or already done.                                   *)
(***************************************************************************)
InitOps ==
    /\ fut \in [Ops -> FutStates]
    /\ onCancel \in [Ops -> {"cancelled", "raises", "returns"}]
    /\ \A o \in Ops : fut[o] # "pending" => onCancel[o] = "cancelled"
    /\ cancelReq = [o \in Ops |-> FALSE]
    /\ timedOut = FALSE
    /\ pc = "start"
    /\ idx = 0
    /\ primary = NoExc
    /\ outcome = Running
    /\ first = 0
    /\ cancelPending = FALSE
    /\ mustCancel = FALSE
    /\ wasCancelled = FALSE
    /\ gath = GathPending
    /\ gathCancelReq = FALSE
    /\ retval = <<>>
    /\ order = <<>>
    /\ cancelCalls = {}
    /\ extCancel = (\E o \in Ops : fut[o] = "cancelled")

\* No loop is being destroyed.
IdleLoop ==
    /\ task = <<>>
    /\ tCancelReq = <<>>
    /\ tOnCancel = <<>>
    /\ tSpawns = <<>>
    /\ remaining = {}
    /\ mpc = <<>>
    /\ handlerCalls = <<>>
    /\ dlpc = "idle"
    /\ dlOutcome = "running"
    /\ closed = FALSE
    /\ loopSet = TRUE
    /\ executorNI = FALSE

\* No event is being decoded.
IdleFactory ==
    /\ efOp = "none"
    /\ efPayload = <<>>
    /\ efEvent = <<>>
    /\ efOld = {}
    /\ efMemberCalls = <<>>
    /\ efpc = "idle"
    /\ efApp = "none"
    /\ efCount = 0
    /\ efFailed = FALSE
    /\ efRemembered = {}

\* No epoch is being converted.
IdleTime ==
    /\ tmEpoch = 0
    /\ tmDatetime = <<>>
    /\ tmResult = -1
    /\ tmpc = "idle"

IdleIntents ==
    /\ inValue = {}
    /\ inFlag = {}
    /\ inResult = {}
    /\ inpc = "idle"

IdleEmbed ==
    /\ emEmbed = <<>>
    /\ emBefore = <<>>
    /\ emCall = <<>>
    /\ emRaised = "none"
    /\ emCount = 0

IdleMessage ==
    /\ meKind = "none"
    /\ meAuthor = <<>>
    /\ meWebhook = <<>>
    /\ meIsBot = <<>>
    /\ meIsHuman = <<>>
    /\ meIsWebhook = <<>>

\* No intents operation, no embed and no message event.
IdleData ==
    /\ IdleIntents
    /\ IdleEmbed
    /\ IdleMessage

InitFirst ==
    /\ prim = "first_completed"
    /\ IdleLoop
    /\ IdleFactory
    /\ IdleTime
    /\ IdleData
    /\ timeout \in {"none", "positive"}
    /\ InitOps

InitAllOf ==
    /\ prim = "all_of"
    /\ IdleLoop
    /\ IdleFactory
    /\ IdleTime
    /\ IdleData
    /\ timeout \in {"none", "zero", "positive"}
    /\ InitOps

(***************************************************************************)
(* The operations themselves.                                              *)
(***************************************************************************)
Active == pc \notin {"start", "done"}

\* What the completion of o does to the coordinating objects: as_completed's
\* _on_completion queues it, gather's _done_callback counts it.
OnDone(o, f) ==
    /\ order' = IF prim = "all_of" THEN Append(order, o) ELSE order
    /\ first' = IF prim = "first_completed" /\ pc = "wait" /\ first = 0 /\ ~timedOut
                THEN o ELSE first
    /\ gath' = IF prim = "all_of" THEN GatherCallback(gath, f, o, gathCancelReq,
                                                   \A p \in Ops : f[p] \in Terminal)
               ELSE gath

\* An operation finishes on its own, with a value or with an exception.
OpFinish(o) ==
    /\ Active
    /\ fut[o] = "pending"
    /\ ~cancelReq[o]
    /\ \E how \in {"result", "exception"} :
          /\ fut' = [fut EXCEPT ![o] = how]
          /\ OnDone(o, fut')
    /\ UNCHANGED <<dlVars, efVars, tmVars, dataVars>>
    /\ UNCHANGED <<extCancel, prim, cancelReq, onCancel, timeout, timedOut, pc, idx, primary,
                   outcome, cancelPending, mustCancel, wasCancelled, gathCancelReq,
                   retval, cancelCalls>>

\* Somebody other than the primitive cancels an operation while the primitive
\* waits (a later cancellation coincides with the cleanup loop's own).
ExternalCancel(o) ==
    /\ pc = "wait"
    /\ fut[o] = "pending"
    /\ ~cancelReq[o]
    /\ cancelReq' = [cancelReq EXCEPT ![o] = TRUE]
    /\ extCancel' = TRUE
    /\ UNCHANGED <<dlVars, efVars, tmVars, dataVars>>
    /\ UNCHANGED <<prim, fut, onCancel, timeout, timedOut, pc, idx, primary, outcome,
                   first, cancelPending, mustCancel, wasCancelled, gath, gathCancelReq,
                   retval, order, cancelCalls>>

\* A cancelled operation runs again and reacts to the CancelledError.
OpReact(o) ==
    /\ Active
    /\ fut[o] = "pending"
    /\ cancelReq[o]
    /\ fut' = [fut EXCEPT ![o] = CancelReaction(onCancel[o])]
    /\ cancelReq' = [cancelReq EXCEPT ![o] = FALSE]
    /\ OnDone(o, fut')
    /\ UNCHANGED <<dlVars, efVars, tmVars, dataVars>>
    /\ UNCHANGED <<extCancel, prim, onCancel, timeout, timedOut, pc, idx, primary, outcome,
                   cancelPending, mustCancel, wasCancelled, gathCancelReq, retval,
                   cancelCalls>>

(***************************************************************************)
(* The finally block shared by first_completed and all_of.                 *)
(***************************************************************************)
\* How the primitive ends once its finally block has run to its end.
Final(p) == IF p = NoExc THEN Returned ELSE p

\* "await gatherer" at the end of all_of's finally block; the gatherer is done
\* by then, so the await does not suspend.  CancelledError is swallowed, any
\* other exception leaves the block.
DrainGatherer(g, p) ==
    IF g.kind = "OpError" THEN g ELSE p

\* A cleanup that cancels every pending future and returns without awaiting.
CleanupNoAwait(f, i, p, rv) ==
    LET pend == {o \in Ops : o >= i /\ f[o] = "pending"} IN
    /\ cancelReq' = [o \in Ops |-> cancelReq[o] \/ o \in pend]
    /\ cancelCalls' = cancelCalls \cup pend
    /\ idx' = NumOps + 1
    /\ pc' = "done"
    /\ primary' = p
    /\ outcome' = Final(p)
    /\ retval' = IF p = NoExc THEN rv ELSE <<>>

\* The loop "for f in fs" from index i on, with p in flight and f the futures:
\* skips done futures, cancels the first pending one and suspends awaiting it,
\* or falls off the end.
CleanupFrom(f, i, p, rv) ==
    LET j == NextPending(f, i) IN
    IF j <= NumOps
    THEN /\ cancelReq' = [cancelReq EXCEPT ![j] = TRUE]
         /\ cancelCalls' = cancelCalls \cup {j}
         /\ idx' = j
         /\ pc' = "cleanup_await"
         /\ primary' = p
         /\ retval' = rv
         /\ UNCHANGED outcome
    ELSE LET q == IF prim = "all_of" THEN DrainGatherer(gath, p) ELSE p IN
         /\ pc' = "done"
         /\ idx' = j
         /\ primary' = q
         /\ outcome' = Final(q)
         /\ retval' = IF q = NoExc THEN rv ELSE <<>>
         /\ UNCHANGED <<cancelReq, cancelCalls>>

\* What "try: await f / except CancelledError: pass" does with the exception
\* the await raises: CancelledError is swallowed, anything else propagates.
AwaitCancelled(e) == IF e = CancelledError THEN NoExc ELSE e

\* The awaited future is done: the loop goes on, or its exception leaves the
\* finally block and replaces the one in flight.
CleanupResume ==
    /\ pc = "cleanup_await"
    /\ fut[idx] # "pending"
    /\ LET thrown == IF mustCancel THEN CancelledError ELSE AwaitDone(idx)
           e == AwaitCancelled(thrown) IN
       IF e = NoExc
       THEN /\ CleanupFrom(fut, idx + 1, primary, retval)
       ELSE /\ pc' = "done"
            /\ primary' = e
            /\ outcome' = e
            /\ retval' = <<>>
            /\ UNCHANGED <<idx, cancelReq, cancelCalls>>
    /\ mustCancel' = FALSE
    /\ UNCHANGED <<dlVars, efVars, tmVars, dataVars>>
    /\ UNCHANGED <<extCancel, prim, fut, onCancel, timeout, timedOut, first, cancelPending,
                   wasCancelled, gath, gathCancelReq, order>>

(***************************************************************************)
(* first_completed                                                         *)
(***************************************************************************)
\* fs = tuple(map(ensure_future, aws)); as_completed(fs, timeout): the futures
\* already done are queued first, in the iteration order of a set.
FC_Enter ==
    /\ prim = "first_completed"
    /\ pc = "start"
    /\ pc' = "wait"
    /\ LET done == {o \in Ops : fut[o] # "pending"} IN
       IF done = {} THEN first' = 0 ELSE first' \in done
    /\ UNCHANGED <<dlVars, efVars, tmVars, dataVars>>
    /\ UNCHANGED <<extCancel, prim, fut, cancelReq, onCancel, timeout, timedOut, idx, primary,
                   outcome, cancelPending, mustCancel, wasCancelled, gath, gathCancelReq,
                   retval, order, cancelCalls>>

\* as_completed's _on_timeout: nothing has completed within the timeout.
FC_Timeout ==
    /\ prim = "first_completed"
    /\ pc = "wait"
    /\ timeout # "none"
    /\ ~timedOut
    /\ first = 0
    /\ timedOut' = TRUE
    /\ UNCHANGED <<dlVars, efVars, tmVars, dataVars>>
    /\ UNCHANGED <<extCancel, prim, fut, cancelReq, onCancel, timeout, pc, idx, primary, outcome,
                   first, cancelPending, mustCancel, wasCancelled, gath, gathCancelReq,
                   retval, order, cancelCalls>>

\* The exception "await next(iterator)" raises and the except clauses re-raise.
FC_Try(cancelled, expired, winner) ==
    IF cancelled THEN CancelledError
    ELSE IF expired THEN TimeoutError
    ELSE AwaitDone(winner)

\* The primitive wakes up from "await next(iterator)" and runs its finally
\* block up to the first await.
FC_Resume ==
    /\ prim = "first_completed"
    /\ pc = "wait"
    /\ cancelPending \/ timedOut \/ first # 0
    /\ CleanupFrom(fut, 1, FC_Try(cancelPending, timedOut, first), <<>>)
    /\ cancelPending' = FALSE
    /\ UNCHANGED <<dlVars, efVars, tmVars, dataVars>>
    /\ UNCHANGED <<extCancel, prim, fut, onCancel, timeout, timedOut, first, mustCancel, wasCancelled,
                   gath, gathCancelReq, order>>

(***************************************************************************)
(* The caller cancels the task that runs the primitive.                    *)
(***************************************************************************)
\* Task.cancel() while suspended in the cleanup loop on fut[idx]: forwarded to
\* that future when it is not done, otherwise _must_cancel is set.
CallerCancelCleanup ==
    /\ pc = "cleanup_await"
    /\ wasCancelled' = TRUE
    /\ mustCancel' = (fut[idx] # "pending")
    /\ UNCHANGED <<dlVars, efVars, tmVars, dataVars>>
    /\ UNCHANGED <<extCancel, prim, fut, cancelReq, onCancel, timeout, timedOut, pc, idx, primary,
                   outcome, first, cancelPending, gath, gathCancelReq, retval, order,
                   cancelCalls>>

\* Task.cancel() while first_completed is suspended on the done queue.
FC_CallerCancelWait ==
    /\ prim = "first_completed"
    /\ pc = "wait"
    /\ wasCancelled' = TRUE
    /\ cancelPending' = TRUE
    /\ UNCHANGED <<dlVars, efVars, tmVars, dataVars>>
    /\ UNCHANGED <<extCancel, prim, fut, cancelReq, onCancel, timeout, timedOut, pc, idx, primary,
                   outcome, first, mustCancel, gath, gathCancelReq, retval, order,
                   cancelCalls>>

(***************************************************************************)
(* all_of                                                                  *)
(***************************************************************************)
\* The futures already done, in argument order.
DoneSeq(f) == SelectSeq([i \in 1..NumOps |-> i], LAMBDA o : f[o] # "pending")

\* _GatheringFuture.cancel(): cancels every child that is not done.
GathererCancel ==
    LET pend == {o \in Ops : fut[o] = "pending"} IN
    /\ cancelReq' = [o \in Ops |-> cancelReq[o] \/ o \in pend]
    /\ cancelCalls' = cancelCalls \cup pend
    /\ gathCancelReq' = (gathCancelReq \/ pend # {})

\* fs = tuple(map(ensure_future, aws)); gatherer = asyncio.gather over fs;
\* wait_for(gatherer, timeout): with a timeout <= 0 the gatherer is cancelled
\* at once and awaited, otherwise the primitive suspends on it.
AO_Enter ==
    /\ prim = "all_of"
    /\ pc = "start"
    /\ order' = DoneSeq(fut)
    /\ IF timeout = "zero"
       THEN /\ GathererCancel
            /\ pc' = "cancel_wait"
       ELSE /\ pc' = "wait"
            /\ UNCHANGED <<cancelReq, cancelCalls, gathCancelReq>>
    /\ gath' = GatherFold(GathPending, fut, 1, gathCancelReq')
    /\ UNCHANGED <<dlVars, efVars, tmVars, dataVars>>
    /\ UNCHANGED <<extCancel, prim, fut, onCancel, timeout, timedOut, idx, primary, outcome,
                   first, cancelPending, mustCancel, wasCancelled, retval>>

\* Task.cancel() on the primitive suspended in "await fut" of wait_for: the
\* gatherer is cancelled when it is not done, otherwise _must_cancel is set.
AO_CancelTask ==
    IF gath.kind = "pending"
    THEN /\ GathererCancel
         /\ UNCHANGED mustCancel
    ELSE /\ mustCancel' = TRUE
         /\ UNCHANGED <<cancelReq, cancelCalls, gathCancelReq>>

\* asyncio.timeout expires: it cancels the task it guards.
AO_Timeout ==
    /\ prim = "all_of"
    /\ pc = "wait"
    /\ timeout = "positive"
    /\ ~timedOut
    /\ timedOut' = TRUE
    /\ AO_CancelTask
    /\ UNCHANGED <<dlVars, efVars, tmVars, dataVars>>
    /\ UNCHANGED <<extCancel, prim, fut, onCancel, timeout, pc, idx, primary, outcome, first,
                   cancelPending, wasCancelled, gath, retval, order>>

\* The caller cancels all_of while it is suspended in wait_for.
AO_CallerCancelWait ==
    /\ prim = "all_of"
    /\ \/ /\ pc = "wait"
          /\ AO_CancelTask
       \/ /\ pc = "cancel_wait"
          /\ UNCHANGED <<cancelReq, cancelCalls, gathCancelReq, mustCancel>>
    /\ cancelPending' = TRUE
    /\ wasCancelled' = TRUE
    /\ UNCHANGED <<dlVars, efVars, tmVars, dataVars>>
    /\ UNCHANGED <<extCancel, prim, fut, onCancel, timeout, timedOut, pc, idx, primary, outcome,
                   first, gath, retval, order>>

\* What leaves "async with timeout: return await fut": a CancelledError caused
\* by the expiry alone becomes TimeoutError.
WaitForExit(thrown, expired, cancelled) ==
    IF thrown = CancelledError /\ expired /\ ~cancelled THEN TimeoutError
    ELSE thrown

\* The exception awaiting the done gatherer raises.
AwaitGatherer(g) == IF g.kind = "result" THEN NoExc ELSE g

\* The gatherer is done: wait_for returns or raises, the except clauses
\* re-raise, and the finally block runs up to its first await.
AO_Resume ==
    /\ prim = "all_of"
    /\ pc = "wait"
    /\ gath.kind # "pending"
    /\ LET thrown == IF mustCancel THEN CancelledError ELSE AwaitGatherer(gath)
           p == WaitForExit(thrown, timedOut, cancelPending) IN
       CleanupFrom(fut, 1, p, IF p = NoExc THEN GatherResults(fut) ELSE <<>>)
    /\ mustCancel' = FALSE
    /\ cancelPending' = FALSE
    /\ UNCHANGED <<dlVars, efVars, tmVars, dataVars>>
    /\ UNCHANGED <<extCancel, prim, fut, onCancel, timeout, timedOut, first, wasCancelled, gath,
                   gathCancelReq, order>>

\* wait_for with a timeout <= 0, after _cancel_and_wait: the gatherer's result
\* is returned, its cancellation becomes TimeoutError; a cancellation of the
\* caller interrupts the wait.
ZeroTimeoutExit(g, cancelled) ==
    IF cancelled THEN CancelledError
    ELSE IF g = CancelledError THEN TimeoutError
    ELSE AwaitGatherer(g)

AO_ResumeZero ==
    /\ prim = "all_of"
    /\ pc = "cancel_wait"
    /\ gath.kind # "pending" \/ cancelPending
    /\ LET p == ZeroTimeoutExit(gath, cancelPending) IN
       CleanupFrom(fut, 1, p, IF p = NoExc THEN GatherResults(fut) ELSE <<>>)
    /\ mustCancel' = FALSE
    /\ cancelPending' = FALSE
    /\ UNCHANGED <<dlVars, efVars, tmVars, dataVars>>
    /\ UNCHANGED <<extCancel, prim, fut, onCancel, timeout, timedOut, first, wasCancelled, gath,
                   gathCancelReq, order>>

NextAllOf ==
    \/ AO_Enter
    \/ AO_Timeout
    \/ AO_CallerCancelWait
    \/ AO_Resume
    \/ AO_ResumeZero
    \/ CallerCancelCleanup
    \/ CleanupResume
    \/ \E o \in Ops : OpFinish(o)
    \/ \E o \in Ops : ExternalCancel(o)
    \/ \E o \in Ops : OpReact(o)

SpecAllOf == InitAllOf /\ [][NextAllOf]_vars

NextFirst ==
    \/ FC_Enter
    \/ FC_Timeout
    \/ FC_Resume
    \/ FC_CallerCancelWait
    \/ CallerCancelCleanup
    \/ CleanupResume
    \/ \E o \in Ops : OpFinish(o)
    \/ \E o \in Ops : ExternalCancel(o)
    \/ \E o \in Ops : OpReact(o)

SpecFirst == InitFirst /\ [][NextFirst]_vars

(***************************************************************************)
(* destroy_loop                                                            *)
(***************************************************************************)
\* Tasks on the loop when destroy_loop is called; task NumTasks + t is the
\* one t may create while it is being cancelled.
Tasks == 1..NumTasks

\* A task may end with an exception that derives from BaseException only,
\* which "except Exception" does not catch.
TaskStates == FutStates \cup {"base_exception"}
TaskTerminal == Terminal \cup {"base_exception"}

\* How a task reacts to the CancelledError thrown into it.
TaskReactions == {"cancelled", "raises", "raises_base", "returns", "ignores"}

TaskReaction(how) ==
    IF how = "raises_base" THEN "base_exception" ELSE CancelReaction(how)
Child(t) == NumTasks + t
AllTasks == 1..(2 * NumTasks)

\* No primitive is running.
IdleAio ==
    /\ prim = "none"
    /\ InitOps
    /\ fut = [o \in Ops |-> "result"]
    /\ timeout = "none"

InitDestroy ==
    /\ IdleAio
    /\ IdleFactory
    /\ IdleTime
    /\ IdleData
    /\ \E st \in [Tasks -> TaskStates] :
          task = [t \in AllTasks |-> IF t \in Tasks THEN st[t] ELSE "absent"]
    /\ tOnCancel \in [Tasks -> TaskReactions]
    /\ tSpawns \in [Tasks -> BOOLEAN]
    /\ \A t \in Tasks : task[t] # "pending" =>
          (tOnCancel[t] = "cancelled" /\ ~tSpawns[t])
    /\ tCancelReq = [t \in AllTasks |-> FALSE]
    /\ remaining = {}
    /\ mpc = [t \in Tasks |-> "idle"]
    /\ handlerCalls = [t \in Tasks |-> 0]
    /\ dlpc = "start"
    /\ dlOutcome = "running"
    /\ closed = FALSE
    /\ loopSet = TRUE
    /\ executorNI \in BOOLEAN

\* The loop runs only inside run_until_complete.
LoopRunning == dlpc \in {"murdering", "executor", "asyncgens"}

\* remaining_tasks = tuple(t for t in asyncio.all_tasks(loop) if not t.done());
\* with no task left the murder step is skipped.
DL_Start ==
    /\ dlpc = "start"
    /\ remaining' = {t \in AllTasks : task[t] = "pending"}
    /\ mpc' = [t \in Tasks |-> IF task[t] = "pending" THEN "new" ELSE "idle"]
    /\ dlpc' = IF remaining' = {} THEN "executor" ELSE "murdering"
    /\ UNCHANGED <<aioVars, efVars, tmVars, dataVars>>
    /\ UNCHANGED <<task, tCancelReq, tOnCancel, tSpawns, handlerCalls, dlOutcome,
                   closed, loopSet, executorNI>>

\* A task of the loop finishes on its own while the loop runs.
TaskFinish(t) ==
    /\ LoopRunning
    /\ task[t] = "pending"
    /\ ~tCancelReq[t]
    /\ \E how \in {"result", "exception"} : task' = [task EXCEPT ![t] = how]
    /\ UNCHANGED <<aioVars, efVars, tmVars, dataVars>>
    /\ UNCHANGED <<tCancelReq, tOnCancel, tSpawns, remaining, mpc, handlerCalls,
                   dlpc, dlOutcome, closed, loopSet, executorNI>>

\* murder(t) starts: future.cancel(), then await future.
MurderBegin(t) ==
    /\ dlpc = "murdering"
    /\ mpc[t] = "new"
    /\ tCancelReq' = [tCancelReq EXCEPT ![t] = (task[t] = "pending")]
    /\ mpc' = [mpc EXCEPT ![t] = "awaiting"]
    /\ UNCHANGED <<aioVars, efVars, tmVars, dataVars>>
    /\ UNCHANGED <<task, tOnCancel, tSpawns, remaining, handlerCalls, dlpc,
                   dlOutcome, closed, loopSet, executorNI>>

\* A cancelled task runs again and reacts to the CancelledError; it may
\* create a new task while doing so, and it may swallow the cancellation and
\* keep running.
TaskReact(t) ==
    /\ LoopRunning
    /\ t \in Tasks
    /\ task[t] = "pending"
    /\ tCancelReq[t]
    /\ task' = [u \in AllTasks |->
                  IF u = t
                  THEN (IF tOnCancel[t] = "ignores" THEN "pending"
                        ELSE TaskReaction(tOnCancel[t]))
                  ELSE IF u = Child(t) /\ tSpawns[t] THEN "pending"
                  ELSE task[u]]
    /\ tCancelReq' = [tCancelReq EXCEPT ![t] = FALSE]
    /\ UNCHANGED <<aioVars, efVars, tmVars, dataVars>>
    /\ UNCHANGED <<tOnCancel, tSpawns, remaining, mpc, handlerCalls, dlpc,
                   dlOutcome, closed, loopSet, executorNI>>

\* What murder does once "await future" is over: CancelledError is
\* swallowed, an Exception goes to loop.call_exception_handler, anything else
\* leaves murder.
MurderHandle(st) ==
    CASE st = "cancelled" -> "pass"
      [] st = "exception" -> "report"
      [] st = "base_exception" -> "raise"
      [] st = "result" -> "pass"

\* The awaited task is done.  An exception leaving murder would leave gather,
\* run_until_complete and destroy_loop.
MurderResume(t) ==
    /\ dlpc = "murdering"
    /\ mpc[t] = "awaiting"
    /\ task[t] \in TaskTerminal
    /\ LET h == MurderHandle(task[t]) IN
       /\ handlerCalls' = [handlerCalls EXCEPT
                              ![t] = IF h = "report" THEN @ + 1 ELSE @]
       /\ IF h = "raise"
          THEN /\ dlpc' = "done"
               /\ dlOutcome' = "raise"
          ELSE UNCHANGED <<dlpc, dlOutcome>>
    /\ mpc' = [mpc EXCEPT ![t] = "done"]
    /\ UNCHANGED <<aioVars, efVars, tmVars, dataVars>>
    /\ UNCHANGED <<task, tCancelReq, tOnCancel, tSpawns, remaining, closed, loopSet,
                   executorNI>>

\* Every murder has returned: _gather and run_until_complete return.
DL_Gathered ==
    /\ dlpc = "murdering"
    /\ \A t \in remaining : mpc[t] = "done"
    /\ dlpc' = "executor"
    /\ UNCHANGED <<aioVars, efVars, tmVars, dataVars>>
    /\ UNCHANGED <<task, tCancelReq, tOnCancel, tSpawns, remaining, mpc,
                   handlerCalls, dlOutcome, closed, loopSet, executorNI>>

\* loop.run_until_complete(loop.shutdown_default_executor()); a
\* NotImplementedError is ignored.
DL_ShutdownExecutor ==
    /\ dlpc = "executor"
    /\ dlpc' = "asyncgens"
    /\ UNCHANGED <<aioVars, efVars, tmVars, dataVars>>
    /\ UNCHANGED <<task, tCancelReq, tOnCancel, tSpawns, remaining, mpc,
                   handlerCalls, dlOutcome, closed, loopSet, executorNI>>

\* loop.run_until_complete(loop.shutdown_asyncgens())
DL_ShutdownAsyncgens ==
    /\ dlpc = "asyncgens"
    /\ dlpc' = "close"
    /\ UNCHANGED <<aioVars, efVars, tmVars, dataVars>>
    /\ UNCHANGED <<task, tCancelReq, tOnCancel, tSpawns, remaining, mpc,
                   handlerCalls, dlOutcome, closed, loopSet, executorNI>>

\* loop.close(); asyncio.set_event_loop(None)
DL_Close ==
    /\ dlpc = "close"
    /\ closed' = TRUE
    /\ loopSet' = FALSE
    /\ dlpc' = "done"
    /\ dlOutcome' = "return"
    /\ UNCHANGED <<aioVars, efVars, tmVars, dataVars>>
    /\ UNCHANGED <<task, tCancelReq, tOnCancel, tSpawns, remaining, mpc,
                   handlerCalls, executorNI>>

NextDestroy ==
    \/ DL_Start
    \/ DL_Gathered
    \/ DL_ShutdownExecutor
    \/ DL_ShutdownAsyncgens
    \/ DL_Close
    \/ \E t \in Tasks : MurderBegin(t)
    \/ \E t \in Tasks : MurderResume(t)
    \/ \E t \in Tasks : TaskReact(t)
    \/ \E t \in AllTasks : TaskFinish(t)

SpecDestroy == InitDestroy /\ [][NextDestroy]_vars

(***************************************************************************)
(* hikari.internal.time: the epoch conversions.                            *)
(*                                                                         *)
(* Python floats are IEEE 754 binary64.  A positive float is the record of *)
(* its 53 significand bits, most significant first, and the exponent of    *)
(* the first of them: the value is the sum of m[i] * 2^(e - i + 1).  Zero  *)
(* has no bits.  Operations round to nearest, ties to even.                *)
(***************************************************************************)
Float(m, e) == [m |-> m, e |-> e]
Zero == Float(<<>>, 0)

\* The binary digits of the natural number n, most significant first.
RECURSIVE IntBits(_)
IntBits(n) == IF n = 0 THEN <<>> ELSE Append(IntBits(n \div 2), n % 2)

\* The natural number whose binary digits are bits.
RECURSIVE BitsValue(_)
BitsValue(bits) ==
    IF bits = <<>> THEN 0
    ELSE 2 * BitsValue(SubSeq(bits, 1, Len(bits) - 1)) + bits[Len(bits)]

\* n zeros.
Zeros(n) == IF n <= 0 THEN <<>> ELSE [i \in 1..n |-> 0]

\* bits without its leading zeros.
Strip(bits) ==
    IF \A i \in 1..Len(bits) : bits[i] = 0 THEN <<>>
    ELSE LET lead == CHOOSE i \in 1..Len(bits) :
                         bits[i] = 1 /\ \A j \in 1..(i - 1) : bits[j] = 0
         IN  SubSeq(bits, lead, Len(bits))

\* bits + 1 on the same number of digits, for bits that are not all ones.
Increment(bits) ==
    LET last == CHOOSE i \in 1..Len(bits) :
                    bits[i] = 0 /\ \A j \in (i + 1)..Len(bits) : bits[j] = 1
    IN  [i \in 1..Len(bits) |->
            IF i < last THEN bits[i] ELSE IF i = last THEN 1 ELSE 0]

\* Long arithmetic works on limbs of LimbBits binary digits.
LimbBits == 10
Limb == 2 ^ LimbBits

\* The binary digits of a sequence of limbs.
LimbsToBits(limbs) ==
    [i \in 1..(LimbBits * Len(limbs)) |->
        (limbs[((i - 1) \div LimbBits) + 1]
            \div 2 ^ (LimbBits - 1 - ((i - 1) % LimbBits))) % 2]

\* The limbs of a sequence of binary digits, aligned on its last digit.
BitsToLimbs(bits) ==
    LET n == (Len(bits) + LimbBits - 1) \div LimbBits
        padded == Zeros(LimbBits * n - Len(bits)) \o bits
    IN  [k \in 1..n |->
            BitsValue(SubSeq(padded, LimbBits * (k - 1) + 1, LimbBits * k))]

\* n more limbs of r / d, for 0 <= r < d, and what is left of r.
RECURSIVE FracLimbs(_, _, _)
FracLimbs(r, d, n) ==
    IF n = 0 THEN [limbs |-> <<>>, r |-> r]
    ELSE LET rest == FracLimbs((Limb * r) % d, d, n - 1) IN
         [limbs |-> <<(Limb * r) \div d>> \o rest.limbs, r |-> rest.r]

\* How many binary digits of r / d, 0 < r < d, come before its first 1.
RECURSIVE LeadingZeros(_, _)
LeadingZeros(r, d) ==
    IF 2 * r >= d THEN 0 ELSE 1 + LeadingZeros(2 * r, d)

\* The float nearest to the number whose digits are bits (the first of them
\* 1, of exponent e) followed by something not zero exactly when sticky.
Round53(bits, e, sticky) ==
    LET padded == bits \o Zeros(54 - Len(bits))
        kept == SubSeq(padded, 1, 53)
        guard == padded[54]
        rest == sticky \/ \E i \in 55..Len(padded) : padded[i] = 1
        up == guard = 1 /\ (rest \/ kept[53] = 1)
    IN  IF ~up THEN Float(kept, e)
        ELSE IF \A i \in 1..53 : kept[i] = 1
        THEN Float(<<1>> \o Zeros(52), e + 1)
        ELSE Float(Increment(kept), e)

\* x / d for natural numbers x and d > 0: Python's true division.
TrueDiv(x, d) ==
    IF x = 0 THEN Zero
    ELSE IF x \div d > 0
    THEN LET ib == IntBits(x \div d)
             fl == FracLimbs(x % d, d, 6)
         IN  Round53(ib \o LimbsToBits(fl.limbs), Len(ib) - 1, fl.r # 0)
    ELSE LET z == LeadingZeros(x, d)
             fl == FracLimbs(x * 2 ^ z, d, 6)
         IN  Round53(LimbsToBits(fl.limbs), -(z + 1), fl.r # 0)

\* limbs * c + carry, as limbs: those of the product under the last carry.
RECURSIVE MulLimbs(_, _, _)
MulLimbs(limbs, c, carry) ==
    IF limbs = <<>> THEN BitsToLimbs(IntBits(carry))
    ELSE LET t == limbs[Len(limbs)] * c + carry IN
         Append(MulLimbs(SubSeq(limbs, 1, Len(limbs) - 1), c, t \div Limb),
                t % Limb)

\* f * c for a float f and a natural number 0 < c <= 10^6.
Mul(f, c) ==
    IF f = Zero THEN Zero
    ELSE LET p == Strip(LimbsToBits(MulLimbs(BitsToLimbs(f.m), c, 0))) IN
         Round53(p, f.e - 53 + Len(p), FALSE)

\* All the binary digits of f from the one of exponent hi down to the one of
\* exponent lo.
Digits(f, hi, lo) ==
    [i \in 1..(hi - lo + 1) |->
        LET k == f.e - (hi - i + 1) + 1 IN
        IF k >= 1 /\ k <= Len(f.m) THEN f.m[k] ELSE 0]

\* int(f): the integer part of f.
Trunc(f) ==
    IF f = Zero \/ f.e < 0 THEN 0 ELSE BitsValue(Digits(f, f.e, 0))

\* The fractional part of f (math.modf), exact.
Frac(f) ==
    IF f = Zero \/ f.e >= 52 THEN Zero
    ELSE LET lo == f.e - 52
             fb == Strip(Digits(f, -1, lo))
         IN  IF fb = <<>> THEN Zero
             ELSE Float(fb \o Zeros(53 - Len(fb)),
                        lo + Len(fb) - 1)

\* f rounded to the nearest integer, ties to even (f < 2^30).
RoundHalfEven(f) ==
    IF f = Zero \/ f.e < -1 THEN 0
    ELSE LET int == IF f.e < 0 THEN 0 ELSE BitsValue(Digits(f, f.e, 0))
             guard == Digits(f, -1, -1)[1]
             rest == \E k \in 1..53 : f.e - k + 1 < -1 /\ f.m[k] = 1
         IN  IF guard = 1 /\ (rest \/ int % 2 = 1) THEN int + 1 ELSE int

\* A datetime in UTC: whole seconds since 1/1/1970 00:00:00 and microseconds.
Datetime(s, us) == [s |-> s, us |-> us]

\* DISCORD_EPOCH, a timedelta, in seconds.
DISCORD_EPOCH == 1420070400

\* Largest epoch the conversions are given.
MaxEpoch == 1100

\* datetime.fromtimestamp(f, utc): the fraction of f is rounded to a whole
\* number of microseconds, ties to even.
fromtimestamp(f) ==
    LET us == RoundHalfEven(Mul(Frac(f), 1000000)) IN
    IF us = 1000000 THEN Datetime(Trunc(f) + 1, 0) ELSE Datetime(Trunc(f), us)

\* datetime.timestamp() of an aware datetime: its microseconds since 1970
\* divided by 10^6.
timestamp(d) == TrueDiv(d.s * 1000000 + d.us, 1000000)

discord_epoch_to_datetime(epoch) ==
    LET d == fromtimestamp(TrueDiv(epoch, 1000)) IN
    Datetime(d.s + DISCORD_EPOCH, d.us)

datetime_to_discord_epoch(d) ==
    Trunc(Mul(timestamp(Datetime(d.s - DISCORD_EPOCH, d.us)), 1000))

\* unix_epoch_to_datetime for an epoch the calendar can represent.
unix_epoch_to_datetime(epoch, is_millis) ==
    fromtimestamp(TrueDiv(epoch, IF is_millis THEN 1000 ELSE 1))

InitTime ==
    /\ IdleAio
    /\ IdleLoop
    /\ IdleFactory
    /\ IdleData
    /\ tmEpoch \in 0..MaxEpoch
    /\ tmDatetime = <<>>
    /\ tmResult = -1
    /\ tmpc = "ready"

DiscordEpochToDatetime ==
    /\ tmpc = "ready"
    /\ tmDatetime' = discord_epoch_to_datetime(tmEpoch)
    /\ tmpc' = "datetime"
    /\ UNCHANGED <<tmEpoch, tmResult>>
    /\ UNCHANGED <<aioVars, dlVars, efVars, dataVars>>

DatetimeToDiscordEpoch ==
    /\ tmpc = "datetime"
    /\ tmResult' = datetime_to_discord_epoch(tmDatetime)
    /\ tmpc' = "epoch"
    /\ UNCHANGED <<tmEpoch, tmDatetime>>
    /\ UNCHANGED <<aioVars, dlVars, efVars, dataVars>>

NextTime ==
    \/ DiscordEpochToDatetime
    \/ DatetimeToDiscordEpoch

SpecTime == InitTime /\ [][NextTime]_vars

\* An integer wider than a machine word: its sign and the decimal digits of
\* its magnitude, most significant first, without leading zeros.
Epoch(sign, digits) == [sign |-> sign, digits |-> digits]

\* a >= b for the magnitudes written by two digit sequences.
AtLeast(a, b) ==
    \/ Len(a) > Len(b)
    \/ /\ Len(a) = Len(b)
       /\ \/ a = b
          \/ \E i \in 1..Len(a) :
                /\ SubSeq(a, 1, i - 1) = SubSeq(b, 1, i - 1)
                /\ a[i] > b[i]

\* The limits of datetime.fromtimestamp(f, utc), as magnitudes in whole
\* seconds.  A float at or above 2^63, or below -2^63, does not fit time_t;
\* the integers whose nearest float is that far start at 2^63 - 512 and at
\* -(2^63 + 1025).  The calendar ends with the year 9999 and starts with the
\* year 1.
TimeTAbove == <<9,2,2,3,3,7,2,0,3,6,8,5,4,7,7,5,2,9,6>>
TimeTBelow == <<9,2,2,3,3,7,2,0,3,6,8,5,4,7,7,6,8,3,3>>
CalendarAbove == <<2,5,3,4,0,2,3,0,0,8,0,0>>
CalendarBelow == <<6,2,1,3,5,5,9,6,8,0,1>>

\* datetime.max and datetime.min with the UTC timezone.
DatetimeMax == Datetime(Epoch(1, <<2,5,3,4,0,2,3,0,0,7,9,9>>), 999999)
DatetimeMin == Datetime(Epoch(-1, <<6,2,1,3,5,5,9,6,8,0,0>>), 0)

\* The whole seconds of epoch / ((is_millis * 1_000) or 1), for an epoch
\* that is a whole number of seconds.
WholeSeconds(epoch, is_millis) ==
    IF ~is_millis THEN epoch.digits
    ELSE IF Len(epoch.digits) <= 3 THEN <<0>>
    ELSE SubSeq(epoch.digits, 1, Len(epoch.digits) - 3)

\* What datetime.fromtimestamp raises for a timestamp of the given sign and
\* whole seconds: OverflowError outside time_t, ValueError outside the
\* calendar, nothing otherwise.
fromtimestamp_raises(sign, whole) ==
    IF AtLeast(whole, IF sign > 0 THEN TimeTAbove ELSE TimeTBelow)
    THEN "OverflowError"
    ELSE IF AtLeast(whole, IF sign > 0 THEN CalendarAbove ELSE CalendarBelow)
    THEN "ValueError"
    ELSE "none"

\* unix_epoch_to_datetime with its try and except, for an epoch of any
\* width that is a whole number of seconds: OSError and ValueError are
\* caught and answered with datetime.max for a positive epoch and
\* datetime.min otherwise; any other exception leaves the function.
unix_epoch_to_datetime_wide(epoch, is_millis) ==
    LET whole == WholeSeconds(epoch, is_millis)
        error == fromtimestamp_raises(epoch.sign, whole)
    IN  IF error \in {"OSError", "ValueError"}
        THEN IF epoch.sign > 0 THEN DatetimeMax ELSE DatetimeMin
        ELSE IF error # "none"
        THEN [raises |-> error]
        ELSE Datetime(Epoch(epoch.sign, whole), 0)

\* Most zeros appended to a leading part to make an epoch.
MaxZeros == 8

\* The leading parts of the epochs handed in: small numbers and the numbers
\* around each limit of fromtimestamp.
Leading ==
    { <<1>>, <<2,5>>, <<9>>,
      <<2,5,3,4,0,2,3,0,0,7,9,9>>, CalendarAbove,
      <<6,2,1,3,5,5,9,6,8,0,0>>, CalendarBelow,
      <<9,2,2,3,3,7,2,0,3,6,8,5,4,7,7,5,2,9,5>>, TimeTAbove,
      <<9,2,2,3,3,7,2,0,3,6,8,5,4,7,7,6,8,3,2>>, TimeTBelow }

\* The epochs handed in: a whole number of seconds, in seconds or in
\* milliseconds.
UnixEpochs ==
    { [sign |-> sign,
       digits |-> lead \o Zeros(z) \o (IF ms THEN Zeros(3) ELSE <<>>),
       is_millis |-> ms] :
        sign \in {-1, 1}, lead \in Leading, z \in 0..MaxZeros, ms \in BOOLEAN }

InitUnix ==
    /\ IdleAio
    /\ IdleLoop
    /\ IdleFactory
    /\ IdleData
    /\ tmEpoch \in UnixEpochs
    /\ tmDatetime = <<>>
    /\ tmResult = -1
    /\ tmpc = "unix"

UnixEpochToDatetime ==
    /\ tmpc = "unix"
    /\ tmDatetime' = unix_epoch_to_datetime_wide(tmEpoch, tmEpoch.is_millis)
    /\ tmpc' = "returned"
    /\ UNCHANGED <<tmEpoch, tmResult>>
    /\ UNCHANGED <<aioVars, dlVars, efVars, dataVars>>

NextUnix ==
    \/ UnixEpochToDatetime

SpecUnix == InitUnix /\ [][NextUnix]_vars

(***************************************************************************)
(* EventFactoryImpl: decoding gateway payloads                             *)
(***************************************************************************)
\* JSON values.  A string is the sequence of its characters; the characters
\* of an identifier are decimal digits.
Null == [type |-> "null"]
Str(chars) == [type |-> "str", chars |-> chars]
Num(n) == [type |-> "int", n |-> n]
Dict(items) == [type |-> "dict", items |-> items]
List(items) == [type |-> "list", items |-> items]

\* Optional fields of an event.
None == {}
Some(x) == {x}

\* int(str) on a string of decimal digits.
RECURSIVE DigitsValue(_)
DigitsValue(chars) ==
    IF chars = <<>> THEN 0
    ELSE DigitsValue(SubSeq(chars, 1, Len(chars) - 1)) * 10 + chars[Len(chars)]

\* snowflakes.Snowflake(value): int(value).
Snowflake(value) ==
    IF value.type = "int" THEN value.n ELSE DigitsValue(value.chars)

\* The exception Snowflake(obj[key]) raises, "ok" when it raises none.
SnowflakeError(obj, key) ==
    IF key \notin DOMAIN obj THEN "KeyError"
    ELSE IF obj[key].type = "int" THEN "ok"
    ELSE IF obj[key].type = "str"
         THEN (IF obj[key].chars = <<>> THEN "ValueError" ELSE "ok")
    ELSE "TypeError"

\* Snowflake(payload[k]) for the keys of ks in turn: the first exception.
RECURSIVE FirstError(_, _)
FirstError(payload, ks) ==
    IF ks = <<>> THEN "ok"
    ELSE IF SnowflakeError(payload, Head(ks)) # "ok"
         THEN SnowflakeError(payload, Head(ks))
    ELSE FirstError(payload, Tail(ks))

\* payload[key] alone.
KeyError(payload, key) ==
    IF key \in DOMAIN payload THEN "ok" ELSE "KeyError"

Event(cls, guild_id, channel_id, message_id, user_id, emoji_id, emoji_name) ==
    [cls |-> cls, guild_id |-> guild_id, channel_id |-> channel_id,
     message_id |-> message_id, user_id |-> user_id, emoji_id |-> emoji_id,
     emoji_name |-> emoji_name]

Raise(kind) == Event(kind, None, None, None, None, None, "none")

Errors == {"KeyError", "TypeError", "ValueError"}

Id(payload, key) == Some(Snowflake(payload[key]))

\* A Python value is false when it is None, "" or 0.
Truthy(value) ==
    CASE value.type = "null" -> FALSE
      [] value.type = "str" -> value.chars # <<>>
      [] value.type = "int" -> value.n # 0
      [] value.type = "list" -> value.items # <<>>
      [] value.type = "dict" -> DOMAIN value.items # {}
      [] OTHER -> TRUE

\* message-delete decoded leniently: a key that is missing leaves its field
\* of the event None.
deserialize_message_delete_event_partial(payload) ==
    LET field(key) == IF key \in DOMAIN payload /\ SnowflakeError(payload, key) = "ok"
                      THEN Id(payload, key) ELSE None
    IN  IF "guild_id" \in DOMAIN payload
        THEN Event("GuildMessageDeleteEvent", field("guild_id"),
                   field("channel_id"), field("id"), None, None, "none")
        ELSE Event("DMMessageDeleteEvent", None, field("channel_id"),
                   field("id"), None, None, "none")

deserialize_message_delete_event(payload) ==
    LET e == FirstError(payload, <<"channel_id", "id">>) IN
    IF e # "ok" THEN Raise(e)
    ELSE IF "guild_id" \in DOMAIN payload
    THEN IF SnowflakeError(payload, "guild_id") # "ok"
         THEN Raise(SnowflakeError(payload, "guild_id"))
         ELSE Event("GuildMessageDeleteEvent", Id(payload, "guild_id"),
                    Id(payload, "channel_id"), Id(payload, "id"), None, None,
                    "none")
    ELSE Event("DMMessageDeleteEvent", None, Id(payload, "channel_id"),
               Id(payload, "id"), None, None, "none")

deserialize_channel_pins_update_event(payload) ==
    LET e == FirstError(payload, <<"channel_id">>) IN
    IF e # "ok" THEN Raise(e)
    ELSE IF "guild_id" \in DOMAIN payload
    THEN IF SnowflakeError(payload, "guild_id") # "ok"
         THEN Raise(SnowflakeError(payload, "guild_id"))
         ELSE Event("GuildPinsUpdateEvent", Id(payload, "guild_id"),
                    Id(payload, "channel_id"), None, None, None, "none")
    ELSE Event("DMPinsUpdateEvent", None, Id(payload, "channel_id"), None,
               None, None, "none")

\* entity_factory.deserialize_member(member_payload, guild_id=guild_id).
deserialize_member(member_payload, guild_id) ==
    [entity |-> "Member", payload |-> member_payload, guild_id |-> guild_id]

\* A call of entity_factory.deserialize_member.
MemberCall(member_payload, guild_id) ==
    [method |-> "deserialize_member", payload |-> member_payload,
     guild_id |-> guild_id]

\* A typing event: an event with a timestamp and, in a guild, a member.
TypingEvent(cls, guild_id, channel_id, user_id, time, member) ==
    [cls |-> cls, guild_id |-> guild_id, channel_id |-> channel_id,
     message_id |-> None, user_id |-> user_id, emoji_id |-> None,
     emoji_name |-> "none", timestamp |-> time, member |-> member]

\* What a typing-start decode does, when the presence of the key
\* discriminator selects the guild branch and the timestamp is read with
\* is_millis: the event returned (or the exception raised) and the calls of
\* deserialize_member made.
typing_start(payload, discriminator, is_millis) ==
    LET e == FirstError(payload, <<"channel_id">>)
        raise(kind) == [event |-> Raise(kind), calls |-> <<>>]
    IN
    IF e # "ok" THEN raise(e)
    ELSE IF KeyError(payload, "timestamp") # "ok" THEN raise("KeyError")
    ELSE LET time == unix_epoch_to_datetime(payload["timestamp"].n, is_millis) IN
    IF discriminator \in DOMAIN payload
    THEN IF SnowflakeError(payload, "guild_id") # "ok"
         THEN raise(SnowflakeError(payload, "guild_id"))
         ELSE IF KeyError(payload, "member") # "ok" THEN raise("KeyError")
         ELSE [event |-> TypingEvent("GuildTypingEvent", Id(payload, "guild_id"),
                            Id(payload, "channel_id"), None, Some(time),
                            Some(deserialize_member(payload["member"],
                                     Snowflake(payload["guild_id"])))),
               calls |-> <<MemberCall(payload["member"],
                                      Snowflake(payload["guild_id"]))>>]
    ELSE IF SnowflakeError(payload, "user_id") # "ok"
    THEN raise(SnowflakeError(payload, "user_id"))
    ELSE [event |-> TypingEvent("DMTypingEvent", None, Id(payload, "channel_id"),
                       Id(payload, "user_id"), Some(time), None),
          calls |-> <<>>]

\* typing-start decoded with the member key as the discriminator, the way
\* reaction-add is.
deserialize_typing_start_event_on_member(payload) ==
    typing_start(payload, "member", FALSE).event

\* typing-start decoded with the timestamp read as milliseconds, the default
\* of unix_epoch_to_datetime.
deserialize_typing_start_event_millis(payload) ==
    typing_start(payload, "guild_id", TRUE).event

deserialize_typing_start_event(payload) ==
    typing_start(payload, "guild_id", FALSE).event

\* The calls of deserialize_member a typing-start decode makes.
typing_start_member_calls(payload) ==
    typing_start(payload, "guild_id", FALSE).calls

\* _split_reaction_emoji: <<exception, emoji_id, emoji_name>>.
split_reaction_emoji(emoji_payload) ==
    IF "id" \in DOMAIN emoji_payload /\ emoji_payload["id"].type # "null"
    THEN IF SnowflakeError(emoji_payload, "id") # "ok"
         THEN <<SnowflakeError(emoji_payload, "id"), None, "none">>
         ELSE IF "name" \notin DOMAIN emoji_payload
         THEN <<"KeyError", None, "none">>
         ELSE <<"ok", Id(emoji_payload, "id"), "custom">>
    ELSE IF "name" \notin DOMAIN emoji_payload
    THEN <<"KeyError", None, "none">>
    ELSE <<"ok", None, "unicode">>

\* The emoji of reaction-add, decoded in line: <<exception, emoji_id,
\* emoji_name>>.
reaction_add_emoji(emoji_payload) ==
    IF "id" \in DOMAIN emoji_payload /\ Truthy(emoji_payload["id"])
    THEN IF SnowflakeError(emoji_payload, "id") # "ok"
         THEN <<SnowflakeError(emoji_payload, "id"), None, "none">>
         ELSE IF "name" \notin DOMAIN emoji_payload
         THEN <<"KeyError", None, "none">>
         ELSE IF Snowflake(emoji_payload["id"]) = 0
         THEN <<"ok", Some(0), "unicode">>
         ELSE <<"ok", Id(emoji_payload, "id"), "custom">>
    ELSE IF "name" \notin DOMAIN emoji_payload
    THEN <<"KeyError", None, "none">>
    ELSE <<"ok", None, "unicode">>

deserialize_message_reaction_add_event(payload) ==
    LET e == FirstError(payload, <<"channel_id", "message_id">>) IN
    IF e # "ok" THEN Raise(e)
    ELSE IF KeyError(payload, "emoji") # "ok" THEN Raise("KeyError")
    ELSE LET em == reaction_add_emoji(payload["emoji"].items) IN
    IF em[1] # "ok" THEN Raise(em[1])
    ELSE IF "member" \in DOMAIN payload
    THEN IF SnowflakeError(payload, "guild_id") # "ok"
         THEN Raise(SnowflakeError(payload, "guild_id"))
         ELSE Event("GuildReactionAddEvent", Id(payload, "guild_id"),
                    Id(payload, "channel_id"), Id(payload, "message_id"),
                    None, em[2], em[3])
    ELSE IF SnowflakeError(payload, "user_id") # "ok"
    THEN Raise(SnowflakeError(payload, "user_id"))
    ELSE Event("DMReactionAddEvent", None, Id(payload, "channel_id"),
               Id(payload, "message_id"), Id(payload, "user_id"), em[2],
               em[3])

\* The calls of deserialize_member a reaction-add decode makes: the one of the
\* member branch, the last statement of it that can fail.
reaction_add_member_calls(payload) ==
    IF deserialize_message_reaction_add_event(payload).cls = "GuildReactionAddEvent"
    THEN <<MemberCall(payload["member"], Snowflake(payload["guild_id"]))>>
    ELSE <<>>

deserialize_message_reaction_remove_event(payload) ==
    LET e == FirstError(payload, <<"channel_id", "message_id", "user_id">>) IN
    IF e # "ok" THEN Raise(e)
    ELSE IF KeyError(payload, "emoji") # "ok" THEN Raise("KeyError")
    ELSE LET em == split_reaction_emoji(payload["emoji"].items) IN
    IF em[1] # "ok" THEN Raise(em[1])
    ELSE IF "guild_id" \in DOMAIN payload
    THEN IF SnowflakeError(payload, "guild_id") # "ok"
         THEN Raise(SnowflakeError(payload, "guild_id"))
         ELSE Event("GuildReactionDeleteEvent", Id(payload, "guild_id"),
                    Id(payload, "channel_id"), Id(payload, "message_id"),
                    Id(payload, "user_id"), em[2], em[3])
    ELSE Event("DMReactionDeleteEvent", None, Id(payload, "channel_id"),
               Id(payload, "message_id"), Id(payload, "user_id"), em[2],
               em[3])

deserialize_message_reaction_remove_all_event(payload) ==
    LET e == FirstError(payload, <<"channel_id", "message_id">>) IN
    IF e # "ok" THEN Raise(e)
    ELSE IF "guild_id" \in DOMAIN payload
    THEN IF SnowflakeError(payload, "guild_id") # "ok"
         THEN Raise(SnowflakeError(payload, "guild_id"))
         ELSE Event("GuildReactionDeleteAllEvent", Id(payload, "guild_id"),
                    Id(payload, "channel_id"), Id(payload, "message_id"),
                    None, None, "none")
    ELSE Event("DMReactionDeleteAllEvent", None, Id(payload, "channel_id"),
               Id(payload, "message_id"), None, None, "none")

deserialize_message_reaction_remove_emoji_event(payload) ==
    LET e == FirstError(payload, <<"channel_id", "message_id">>) IN
    IF e # "ok" THEN Raise(e)
    ELSE IF KeyError(payload, "emoji") # "ok" THEN Raise("KeyError")
    ELSE LET em == split_reaction_emoji(payload["emoji"].items) IN
    IF em[1] # "ok" THEN Raise(em[1])
    ELSE IF "guild_id" \in DOMAIN payload
    THEN IF SnowflakeError(payload, "guild_id") # "ok"
         THEN Raise(SnowflakeError(payload, "guild_id"))
         ELSE Event("GuildReactionDeleteEmojiEvent", Id(payload, "guild_id"),
                    Id(payload, "channel_id"), Id(payload, "message_id"),
                    None, em[2], em[3])
    ELSE Event("DMReactionDeleteEmojiEvent", None, Id(payload, "channel_id"),
               Id(payload, "message_id"), None, em[2], em[3])

\* Both poll-vote events are one class whose guild_id is None in a DM.
poll_vote_event(cls, payload) ==
    LET e == FirstError(payload, <<"user_id", "channel_id", "message_id">>) IN
    IF e # "ok" THEN Raise(e)
    ELSE IF "guild_id" \in DOMAIN payload
            /\ SnowflakeError(payload, "guild_id") # "ok"
    THEN Raise(SnowflakeError(payload, "guild_id"))
    ELSE IF KeyError(payload, "answer_id") # "ok" THEN Raise("KeyError")
    ELSE Event(cls,
               IF "guild_id" \in DOMAIN payload
               THEN Id(payload, "guild_id") ELSE None,
               Id(payload, "channel_id"), Id(payload, "message_id"),
               Id(payload, "user_id"), None, "none")

deserialize_poll_vote_create_event(payload) ==
    poll_vote_event("PollVoteCreateEvent", payload)

deserialize_poll_vote_delete_event(payload) ==
    poll_vote_event("PollVoteDeleteEvent", payload)

\* The exception [Snowflake(x) for x in items] raises, "ok" when none.
ListError(items) ==
    IF \E i \in 1..Len(items) : items[i].type \notin {"str", "int"}
    THEN "TypeError"
    ELSE IF \E i \in 1..Len(items) :
               items[i].type = "str" /\ items[i].chars = <<>>
    THEN "ValueError"
    ELSE "ok"

\* [Snowflake(x) for x in items]
Snowflakes(items) == [i \in 1..Len(items) |-> Snowflake(items[i])]

\* The thread ids are those the entity decoder gives the threads it builds:
\* each thread payload's id.
deserialize_thread_list_sync_event(payload) ==
    IF SnowflakeError(payload, "guild_id") # "ok"
    THEN Raise(SnowflakeError(payload, "guild_id"))
    ELSE IF "channel_ids" \in DOMAIN payload /\ Truthy(payload["channel_ids"])
            /\ ListError(payload["channel_ids"].items) # "ok"
    THEN Raise(ListError(payload["channel_ids"].items))
    ELSE IF KeyError(payload, "members") # "ok" THEN Raise("KeyError")
    ELSE IF KeyError(payload, "threads") # "ok" THEN Raise("KeyError")
    ELSE IF \E i \in 1..Len(payload["threads"].items) :
               SnowflakeError(payload["threads"].items[i].items, "id") # "ok"
    THEN Raise("KeyError")
    ELSE [cls |-> "ThreadListSyncEvent",
          guild_id |-> Id(payload, "guild_id"),
          channel_ids |->
              IF "channel_ids" \in DOMAIN payload
                 /\ Truthy(payload["channel_ids"])
              THEN Some(Snowflakes(payload["channel_ids"].items))
              ELSE None,
          threads |-> {Snowflake(payload["threads"].items[i].items["id"]) :
                          i \in 1..Len(payload["threads"].items)}]

\* undefined.UNDEFINED
UNDEFINED == [type |-> "undefined"]

\* mapping.get(key, undefined.UNDEFINED)
Get(obj, key) == IF key \in DOMAIN obj THEN obj[key] ELSE UNDEFINED

\* colors.Color(raw) and user_models.UserFlag(raw): the integer, typed.
Color(raw) == [type |-> "color", n |-> raw.n]
UserFlag(raw) == [type |-> "flag", n |-> raw.n]

\* entity_factory.deserialize_member_presence: needs the user's id and the
\* guild id.
deserialize_member_presence(payload) ==
    IF KeyError(payload, "user") # "ok" THEN "KeyError"
    ELSE IF SnowflakeError(payload["user"].items, "id") # "ok"
    THEN SnowflakeError(payload["user"].items, "id")
    ELSE SnowflakeError(payload, "guild_id")

\* PartialUserImpl built from the user fragment.
PartialUser(user_payload) ==
    [id |-> Num(Snowflake(user_payload["id"])),
     discriminator |-> Get(user_payload, "discriminator"),
     username |-> Get(user_payload, "username"),
     global_name |-> Get(user_payload, "global_name"),
     avatar_decoration |-> Null,
     avatar_hash |-> Get(user_payload, "avatar"),
     banner_hash |-> Get(user_payload, "banner"),
     accent_color |->
         IF "accent_color" \in DOMAIN user_payload
         THEN (IF user_payload["accent_color"].type # "null"
               THEN Color(user_payload["accent_color"])
               ELSE user_payload["accent_color"])
         ELSE UNDEFINED,
     is_bot |-> Get(user_payload, "bot"),
     is_system |-> Get(user_payload, "system"),
     flags |-> IF "public_flags" \in DOMAIN user_payload
               THEN UserFlag(user_payload["public_flags"]) ELSE UNDEFINED]

PresenceUpdateEvent(payload, user) ==
    [cls |-> "PresenceUpdateEvent", guild_id |-> Id(payload, "guild_id"),
     user |-> user]

\* presence-update that builds the user from any non-empty fragment.
deserialize_presence_update_event_any_key(payload) ==
    IF deserialize_member_presence(payload) # "ok"
    THEN Raise(deserialize_member_presence(payload))
    ELSE IF Cardinality(DOMAIN payload["user"].items) >= 1
    THEN PresenceUpdateEvent(payload, Some(PartialUser(payload["user"].items)))
    ELSE PresenceUpdateEvent(payload, None)

deserialize_presence_update_event(payload) ==
    IF deserialize_member_presence(payload) # "ok"
    THEN Raise(deserialize_member_presence(payload))
    ELSE IF Cardinality(DOMAIN payload["user"].items) > 1
    THEN IF SnowflakeError(payload["user"].items, "id") # "ok"
         THEN Raise(SnowflakeError(payload["user"].items, "id"))
         ELSE PresenceUpdateEvent(payload,
                                  Some(PartialUser(payload["user"].items)))
    ELSE PresenceUpdateEvent(payload, None)

\* "old_messages or {}": an absent or empty mapping gives the empty mapping.
OrEmpty(old_messages) ==
    IF old_messages = None THEN {} ELSE CHOOSE m \in old_messages : TRUE

\* bulk delete that keeps the first listed id only.
deserialize_guild_message_delete_bulk_event_first(payload, old_messages) ==
    LET e == FirstError(payload, <<"channel_id", "guild_id">>) IN
    IF e # "ok" THEN Raise(e)
    ELSE IF KeyError(payload, "ids") # "ok" THEN Raise("KeyError")
    ELSE IF ListError(payload["ids"].items) # "ok"
    THEN Raise(ListError(payload["ids"].items))
    ELSE [cls |-> "GuildBulkMessageDeleteEvent",
          guild_id |-> Id(payload, "guild_id"),
          channel_id |-> Id(payload, "channel_id"),
          message_ids |->
              {Snowflakes(payload["ids"].items)[i] :
                  i \in 1..(IF Len(payload["ids"].items) > 0 THEN 1 ELSE 0)},
          old_messages |-> OrEmpty(old_messages)]

\* message_ids is a SnowflakeSet of the converted ids.
deserialize_guild_message_delete_bulk_event(payload, old_messages) ==
    LET e == FirstError(payload, <<"channel_id", "guild_id">>) IN
    IF e # "ok" THEN Raise(e)
    ELSE IF KeyError(payload, "ids") # "ok" THEN Raise("KeyError")
    ELSE IF ListError(payload["ids"].items) # "ok"
    THEN Raise(ListError(payload["ids"].items))
    ELSE [cls |-> "GuildBulkMessageDeleteEvent",
          guild_id |-> Id(payload, "guild_id"),
          channel_id |-> Id(payload, "channel_id"),
          message_ids |->
              {Snowflakes(payload["ids"].items)[i] :
                  i \in 1..Len(payload["ids"].items)},
          old_messages |-> OrEmpty(old_messages)]

\* entity_factory.deserialize_message / deserialize_partial_message: the
\* message's guild_id is the payload's, None when the payload has none.
deserialize_message(payload) ==
    LET e == FirstError(payload, <<"id", "channel_id">>) IN
    IF e # "ok" THEN [error |-> e, guild_id |-> None, channel_id |-> None,
                      id |-> None]
    ELSE IF "guild_id" \in DOMAIN payload
            /\ SnowflakeError(payload, "guild_id") # "ok"
    THEN [error |-> SnowflakeError(payload, "guild_id"), guild_id |-> None,
          channel_id |-> None, id |-> None]
    ELSE [error |-> "ok",
          guild_id |-> IF "guild_id" \in DOMAIN payload
                       THEN Id(payload, "guild_id") ELSE None,
          channel_id |-> Id(payload, "channel_id"),
          id |-> Id(payload, "id")]

\* message-create decoded with the member key as the discriminator.
deserialize_message_create_event_on_member(payload) ==
    LET message == deserialize_message(payload) IN
    IF message.error # "ok" THEN Raise(message.error)
    ELSE IF "member" \notin DOMAIN payload
    THEN Event("DMMessageCreateEvent", None, message.channel_id, message.id,
               None, None, "none")
    ELSE Event("GuildMessageCreateEvent", message.guild_id, message.channel_id,
               message.id, None, None, "none")

\* The events hold the message; guild_id here is message.guild_id.
deserialize_message_create_event(payload) ==
    LET message == deserialize_message(payload) IN
    IF message.error # "ok" THEN Raise(message.error)
    ELSE IF message.guild_id = None
    THEN Event("DMMessageCreateEvent", None, message.channel_id, message.id,
               None, None, "none")
    ELSE Event("GuildMessageCreateEvent", message.guild_id, message.channel_id,
               message.id, None, None, "none")

deserialize_message_update_event(payload) ==
    LET message == deserialize_message(payload) IN
    IF message.error # "ok" THEN Raise(message.error)
    ELSE IF message.guild_id = None
    THEN Event("DMMessageUpdateEvent", None, message.channel_id, message.id,
               None, None, "none")
    ELSE Event("GuildMessageUpdateEvent", message.guild_id, message.channel_id,
               message.id, None, None, "none")

\* The guild_id property of GuildMessageCreateEvent and
\* GuildMessageUpdateEvent: asserts that message.guild_id is a Snowflake.
guild_id_property(event) ==
    IF event.guild_id = None THEN "AssertionError" ELSE "ok"

\* The methods decoded here and the keys their payloads may carry.
DecodeOps ==
    {"message_create", "message_update", "thread_list_sync",
     "presence_update", "guild_message_delete_bulk",
     "message_delete", "channel_pins_update", "typing_start",
     "message_reaction_add", "message_reaction_remove",
     "message_reaction_remove_all", "message_reaction_remove_emoji",
     "poll_vote_create", "poll_vote_delete"}

OpKeys(op) ==
    CASE op = "message_delete" -> {"channel_id", "id", "guild_id"}
      [] op \in {"message_create", "message_update"} ->
            {"id", "channel_id", "guild_id", "member"}
      [] op = "presence_update" -> {"user", "guild_id"}
      [] op = "guild_message_delete_bulk" -> {"channel_id", "guild_id", "ids"}
      [] op = "thread_list_sync" ->
            {"guild_id", "channel_ids", "members", "threads"}
      [] op = "channel_pins_update" -> {"channel_id", "guild_id"}
      [] op = "typing_start" ->
            {"channel_id", "timestamp", "guild_id", "member", "user_id"}
      [] op = "message_reaction_add" ->
            {"channel_id", "message_id", "emoji", "member", "guild_id", "user_id"}
      [] op = "message_reaction_remove" ->
            {"channel_id", "message_id", "user_id", "emoji", "guild_id"}
      [] op = "message_reaction_remove_all" ->
            {"channel_id", "message_id", "guild_id"}
      [] op = "message_reaction_remove_emoji" ->
            {"channel_id", "message_id", "emoji", "guild_id"}
      [] op \in {"poll_vote_create", "poll_vote_delete"} ->
            {"user_id", "channel_id", "message_id", "guild_id", "answer_id"}

\* Values a key may carry.  "042" and "17" are identifiers, null is not.
GuildIdValues == {Str(<<1, 7>>), Str(<<0, 4, 2>>), Null}

EmojiValues ==
    {Dict([k \in ks |-> IF k = "id" THEN id ELSE Str(<<1>>)]) :
        ks \in SUBSET {"id", "name"},
        id \in {Null, Str(<<3>>), Str(<<0>>), Str(<<>>)}}

KeyValue(k, guild, emoji) ==
    CASE k = "guild_id" -> guild
      [] k = "emoji" -> emoji
      [] k = "channel_id" -> Str(<<7>>)
      [] k = "id" -> Str(<<8>>)
      [] k = "message_id" -> Str(<<9>>)
      [] k = "user_id" -> Str(<<5>>)
      [] k = "member" -> Dict(<<>>)
      [] k = "timestamp" -> Num(1)
      [] k = "answer_id" -> Num(1)

\* User fragments: every subset of these keys, an avatar and an accent colour
\* that may be null.
UserValues ==
    {Dict([k \in ks |->
             CASE k = "id" -> Str(<<5>>)
               [] k = "username" -> Str(<<1>>)
               [] k = "avatar" -> avatar
               [] k = "accent_color" -> accent
               [] k = "public_flags" -> Num(64)]) :
        ks \in SUBSET {"id", "username", "avatar", "accent_color", "public_flags"},
        avatar \in {Null, Str(<<2>>)}, accent \in {Null, Num(255)}}

\* The values each key may carry.
KeyValues(k) ==
    CASE k = "guild_id" -> GuildIdValues
      [] k = "user" -> UserValues
      [] k = "ids" ->
            {List(<<>>), List(<<Str(<<1, 0>>), Str(<<1, 1>>)>>),
             List(<<Str(<<1, 0>>), Str(<<0, 1, 0>>)>>)}
      [] k = "emoji" -> EmojiValues
      [] k = "channel_ids" -> {Null, List(<<>>), List(<<Str(<<3>>), Str(<<4>>)>>)}
      [] k = "timestamp" -> {Num(1), Num(2500)}
      [] k = "members" -> {List(<<>>)}
      [] k = "threads" -> {List(<<>>), List(<<Dict([id |-> Str(<<6>>)])>>)}
      [] OTHER -> {KeyValue(k, Null, Null)}

\* payload with payload[k] = v
With(payload, k, v) ==
    [x \in DOMAIN payload \cup {k} |-> IF x = k THEN v ELSE payload[x]]

\* payload without the key k
Without(payload, k) == [x \in DOMAIN payload \ {k} |-> payload[x]]

\* Every JSON object over a subset of keys.
RECURSIVE Payloads(_)
Payloads(keys) ==
    IF keys = {} THEN {[x \in {} |-> Null]}
    ELSE LET k == CHOOSE x \in keys : TRUE
             rest == Payloads(keys \ {k})
         IN  rest \cup {With(p, k, v) : p \in rest, v \in KeyValues(k)}

\* EventFactoryImpl(app), about to decode its first payload.
InitFactory ==
    /\ IdleAio
    /\ IdleLoop
    /\ IdleTime
    /\ IdleData
    /\ efApp = "app"
    /\ efCount = 1
    /\ efFailed = FALSE
    /\ efRemembered = None
    /\ efEvent = <<>>
    /\ efMemberCalls = <<>>
    /\ efpc = "ready"

InitDecode ==
    /\ InitFactory
    /\ efOp \in DecodeOps
    /\ efPayload \in Payloads(OpKeys(efOp))
    /\ efOld \in IF efOp = "guild_message_delete_bulk"
                 THEN {None, Some({}), Some({10})} ELSE {None}

\* The call raises the error of the earlier failure, if there was one.
ReturnAfterFailure(event, member_calls) ==
    /\ efEvent' = IF efFailed THEN Raise("KeyError") ELSE event
    /\ efMemberCalls' = member_calls
    /\ efpc' = "decoded"
    /\ UNCHANGED <<efOp, efPayload, efOld, efApp, efCount, efFailed, efRemembered>>
    /\ UNCHANGED <<aioVars, dlVars, tmVars, dataVars>>

\* The call returns or raises event, having made member_calls.
Return(event, member_calls) ==
    /\ efEvent' = event
    /\ efMemberCalls' = member_calls
    /\ efpc' = "decoded"
    /\ UNCHANGED <<efOp, efPayload, efOld, efApp, efCount, efFailed, efRemembered>>
    /\ UNCHANGED <<aioVars, dlVars, tmVars, dataVars>>

MessageCreate ==
    /\ efpc = "ready"
    /\ efOp = "message_create"
    /\ Return(deserialize_message_create_event(efPayload), <<>>)

MessageUpdate ==
    /\ efpc = "ready"
    /\ efOp = "message_update"
    /\ Return(deserialize_message_update_event(efPayload), <<>>)

PresenceUpdate ==
    /\ efpc = "ready"
    /\ efOp = "presence_update"
    /\ Return(deserialize_presence_update_event(efPayload), <<>>)

ThreadListSync ==
    /\ efpc = "ready"
    /\ efOp = "thread_list_sync"
    /\ Return(deserialize_thread_list_sync_event(efPayload), <<>>)

GuildMessageDeleteBulk ==
    /\ efpc = "ready"
    /\ efOp = "guild_message_delete_bulk"
    /\ Return(deserialize_guild_message_delete_bulk_event(efPayload, efOld),
              <<>>)

MessageDelete ==
    /\ efpc = "ready"
    /\ efOp = "message_delete"
    /\ Return(deserialize_message_delete_event(efPayload), <<>>)

ChannelPinsUpdate ==
    /\ efpc = "ready"
    /\ efOp = "channel_pins_update"
    /\ Return(deserialize_channel_pins_update_event(efPayload), <<>>)

TypingStart ==
    /\ efpc = "ready"
    /\ efOp = "typing_start"
    /\ Return(deserialize_typing_start_event(efPayload),
              typing_start_member_calls(efPayload))

MessageReactionAdd ==
    /\ efpc = "ready"
    /\ efOp = "message_reaction_add"
    /\ Return(deserialize_message_reaction_add_event(efPayload),
              reaction_add_member_calls(efPayload))

MessageReactionRemove ==
    /\ efpc = "ready"
    /\ efOp = "message_reaction_remove"
    /\ Return(deserialize_message_reaction_remove_event(efPayload), <<>>)

MessageReactionRemoveAll ==
    /\ efpc = "ready"
    /\ efOp = "message_reaction_remove_all"
    /\ Return(deserialize_message_reaction_remove_all_event(efPayload), <<>>)

MessageReactionRemoveEmoji ==
    /\ efpc = "ready"
    /\ efOp = "message_reaction_remove_emoji"
    /\ Return(deserialize_message_reaction_remove_emoji_event(efPayload), <<>>)

PollVoteCreate ==
    /\ efpc = "ready"
    /\ efOp = "poll_vote_create"
    /\ Return(deserialize_poll_vote_create_event(efPayload), <<>>)

PollVoteDelete ==
    /\ efpc = "ready"
    /\ efOp = "poll_vote_delete"
    /\ Return(deserialize_poll_vote_delete_event(efPayload), <<>>)

NextDecode ==
    \/ MessageCreate
    \/ MessageUpdate
    \/ ThreadListSync
    \/ PresenceUpdate
    \/ GuildMessageDeleteBulk
    \/ MessageDelete
    \/ ChannelPinsUpdate
    \/ TypingStart
    \/ MessageReactionAdd
    \/ MessageReactionRemove
    \/ MessageReactionRemoveAll
    \/ MessageReactionRemoveEmoji
    \/ PollVoteCreate
    \/ PollVoteDelete

SpecDecode == InitDecode /\ [][NextDecode]_vars

(***************************************************************************)
(* A factory decoding one payload after another.                           *)
(***************************************************************************)
\* Number of decode calls made on one factory.
MaxDecodes == 3

\* The value each key carries in these payloads.
SessionValue(k) ==
    CASE k = "guild_id" -> Str(<<1, 7>>)
      [] k = "user" ->
            Dict([id |-> Str(<<5>>), username |-> Str(<<1>>),
                  avatar |-> Str(<<2>>), accent_color |-> Num(255),
                  public_flags |-> Num(64)])
      [] k = "ids" -> List(<<Str(<<1, 0>>), Str(<<1, 1>>)>>)
      [] k = "emoji" -> Dict([id |-> Str(<<3>>), name |-> Str(<<1>>)])
      [] k = "channel_ids" -> List(<<Str(<<3>>), Str(<<4>>)>>)
      [] k = "members" -> List(<<>>)
      [] k = "threads" -> List(<<Dict([id |-> Str(<<6>>)])>>)
      [] k = "timestamp" -> Num(2500)
      [] OTHER -> KeyValue(k, Null, Null)

\* The payloads of op with every key, or every key but one.
SessionPayloads(op) ==
    {[k \in OpKeys(op) \ drop |-> SessionValue(k)] :
        drop \in {{}} \cup {{k} : k \in OpKeys(op)}}

\* The calls made on the factory: a method, its payload and, for the guild
\* bulk delete, the old messages.
SessionInputs ==
    UNION {{[op |-> op, payload |-> payload, old |-> old] :
               payload \in SessionPayloads(op),
               old \in IF op = "guild_message_delete_bulk"
                       THEN {None, Some({10})} ELSE {None}} :
           op \in DecodeOps}

\* What a factory that has decoded nothing returns or raises.
Deserialize(op, payload, old) ==
    CASE op = "message_create" -> deserialize_message_create_event(payload)
      [] op = "message_update" -> deserialize_message_update_event(payload)
      [] op = "thread_list_sync" -> deserialize_thread_list_sync_event(payload)
      [] op = "presence_update" -> deserialize_presence_update_event(payload)
      [] op = "guild_message_delete_bulk" ->
            deserialize_guild_message_delete_bulk_event(payload, old)
      [] op = "message_delete" -> deserialize_message_delete_event(payload)
      [] op = "channel_pins_update" ->
            deserialize_channel_pins_update_event(payload)
      [] op = "typing_start" -> deserialize_typing_start_event(payload)
      [] op = "message_reaction_add" ->
            deserialize_message_reaction_add_event(payload)
      [] op = "message_reaction_remove" ->
            deserialize_message_reaction_remove_event(payload)
      [] op = "message_reaction_remove_all" ->
            deserialize_message_reaction_remove_all_event(payload)
      [] op = "message_reaction_remove_emoji" ->
            deserialize_message_reaction_remove_emoji_event(payload)
      [] op = "poll_vote_create" -> deserialize_poll_vote_create_event(payload)
      [] op = "poll_vote_delete" -> deserialize_poll_vote_delete_event(payload)

InitSession ==
    /\ InitFactory
    /\ \E i \in SessionInputs :
          /\ efOp = i.op
          /\ efPayload = i.payload
          /\ efOld = i.old

\* The caller, done with one event, hands the factory the next payload.
Receive ==
    /\ efpc = "decoded"
    /\ efCount < MaxDecodes
    /\ \E i \in SessionInputs :
          /\ efOp' = i.op
          /\ efPayload' = i.payload
          /\ efOld' = i.old
    /\ efRemembered' \in
          {efRemembered,
           Some([op |-> efOp, payload |-> efPayload, old |-> efOld,
                 event |-> efEvent])}
    /\ efFailed' = (efFailed \/ efEvent.cls \in Errors)
    /\ efCount' = efCount + 1
    /\ efEvent' = <<>>
    /\ efMemberCalls' = <<>>
    /\ efpc' = "ready"
    /\ UNCHANGED efApp
    /\ UNCHANGED <<aioVars, dlVars, tmVars, dataVars>>

NextSession ==
    \/ NextDecode
    \/ Receive

SpecSession == InitSession /\ [][NextSession]_vars

(***************************************************************************)
(* hikari.intents: the intent flags.                                       *)
(*                                                                         *)
(* An intents value is an integer read as a bit field; it is modelled as   *)
(* the set of the positions of its set bits, so that & is intersection, |  *)
(* is union and ^ is symmetric difference.                                 *)
(***************************************************************************)
\* 1 << n
Bit(n) == {n}

\* The members of the Intents enumeration, by name.
Intents ==
    LET NONE == {}
        GUILDS == Bit(0)
        GUILD_MEMBERS == Bit(1)
        GUILD_MODERATION == Bit(2)
        GUILD_EMOJIS == Bit(3)
        GUILD_INTEGRATIONS == Bit(4)
        GUILD_WEBHOOKS == Bit(5)
        GUILD_INVITES == Bit(6)
        GUILD_VOICE_STATES == Bit(7)
        GUILD_PRESENCES == Bit(8)
        GUILD_MESSAGES == Bit(9)
        GUILD_MESSAGE_REACTIONS == Bit(10)
        GUILD_MESSAGE_TYPING == Bit(11)
        DM_MESSAGES == Bit(12)
        DM_MESSAGE_REACTIONS == Bit(13)
        DM_MESSAGE_TYPING == Bit(14)
        MESSAGE_CONTENT == Bit(15)
        GUILD_SCHEDULED_EVENTS == Bit(16)
        AUTO_MODERATION_CONFIGURATION == Bit(20)
        AUTO_MODERATION_EXECUTION == Bit(21)
        GUILD_MESSAGE_POLLS == Bit(24)
        DIRECT_MESSAGE_POLLS == Bit(25)
        ALL_GUILDS_UNPRIVILEGED ==
            GUILDS \cup GUILD_EMOJIS \cup GUILD_INTEGRATIONS
                \cup GUILD_WEBHOOKS \cup GUILD_INVITES \cup GUILD_VOICE_STATES
                \cup GUILD_MESSAGES \cup GUILD_MESSAGE_REACTIONS
                \cup GUILD_MESSAGE_TYPING \cup GUILD_MODERATION
                \cup GUILD_SCHEDULED_EVENTS \cup GUILD_MESSAGE_POLLS
        ALL_GUILDS_PRIVILEGED == GUILD_MEMBERS \cup GUILD_PRESENCES
        ALL_GUILDS == ALL_GUILDS_UNPRIVILEGED \cup ALL_GUILDS_PRIVILEGED
        ALL_DMS ==
            DM_MESSAGES \cup DM_MESSAGE_TYPING \cup DM_MESSAGE_REACTIONS
                \cup DIRECT_MESSAGE_POLLS
        ALL_MESSAGES == DM_MESSAGES \cup GUILD_MESSAGES
        ALL_POLLS == GUILD_MESSAGE_POLLS \cup DIRECT_MESSAGE_POLLS
        ALL_MESSAGE_REACTIONS ==
            DM_MESSAGE_REACTIONS \cup GUILD_MESSAGE_REACTIONS
        ALL_MESSAGE_TYPING == DM_MESSAGE_TYPING \cup GUILD_MESSAGE_TYPING
        ALL_AUTO_MODERATION ==
            AUTO_MODERATION_CONFIGURATION \cup AUTO_MODERATION_EXECUTION
        ALL_UNPRIVILEGED ==
            ALL_GUILDS_UNPRIVILEGED \cup ALL_DMS \cup ALL_AUTO_MODERATION
        ALL_PRIVILEGED == ALL_GUILDS_PRIVILEGED \cup MESSAGE_CONTENT
        ALL == ALL_UNPRIVILEGED \cup ALL_PRIVILEGED
    IN  [NONE |-> NONE,
         GUILDS |-> GUILDS,
         GUILD_MEMBERS |-> GUILD_MEMBERS,
         GUILD_MODERATION |-> GUILD_MODERATION,
         GUILD_EMOJIS |-> GUILD_EMOJIS,
         GUILD_INTEGRATIONS |-> GUILD_INTEGRATIONS,
         GUILD_WEBHOOKS |-> GUILD_WEBHOOKS,
         GUILD_INVITES |-> GUILD_INVITES,
         GUILD_VOICE_STATES |-> GUILD_VOICE_STATES,
         GUILD_PRESENCES |-> GUILD_PRESENCES,
         GUILD_MESSAGES |-> GUILD_MESSAGES,
         GUILD_MESSAGE_REACTIONS |-> GUILD_MESSAGE_REACTIONS,
         GUILD_MESSAGE_TYPING |-> GUILD_MESSAGE_TYPING,
         DM_MESSAGES |-> DM_MESSAGES,
         DM_MESSAGE_REACTIONS |-> DM_MESSAGE_REACTIONS,
         DM_MESSAGE_TYPING |-> DM_MESSAGE_TYPING,
         MESSAGE_CONTENT |-> MESSAGE_CONTENT,
         GUILD_SCHEDULED_EVENTS |-> GUILD_SCHEDULED_EVENTS,
         AUTO_MODERATION_CONFIGURATION |-> AUTO_MODERATION_CONFIGURATION,
         AUTO_MODERATION_EXECUTION |-> AUTO_MODERATION_EXECUTION,
         GUILD_MESSAGE_POLLS |-> GUILD_MESSAGE_POLLS,
         DIRECT_MESSAGE_POLLS |-> DIRECT_MESSAGE_POLLS,
         ALL_GUILDS_UNPRIVILEGED |-> ALL_GUILDS_UNPRIVILEGED,
         ALL_GUILDS_PRIVILEGED |-> ALL_GUILDS_PRIVILEGED,
         ALL_GUILDS |-> ALL_GUILDS,
         ALL_DMS |-> ALL_DMS,
         ALL_MESSAGES |-> ALL_MESSAGES,
         ALL_POLLS |-> ALL_POLLS,
         ALL_MESSAGE_REACTIONS |-> ALL_MESSAGE_REACTIONS,
         ALL_MESSAGE_TYPING |-> ALL_MESSAGE_TYPING,
         ALL_AUTO_MODERATION |-> ALL_AUTO_MODERATION,
         ALL_UNPRIVILEGED |-> ALL_UNPRIVILEGED,
         ALL_PRIVILEGED |-> ALL_PRIVILEGED,
         ALL |-> ALL]

\* The operators of enums.Flag on two values: &, | and ^.
And(a, b) == a \cap b
Or(a, b) == a \cup b
Xor(a, b) == (a \ b) \cup (b \ a)

\* is_privileged testing only the privileged guild intents.
is_privileged_guilds(self) == And(self, Intents.ALL_GUILDS_PRIVILEGED) # {}

\* Intents.is_privileged: bool(self & self.ALL_PRIVILEGED).
is_privileged(self) == And(self, Intents.ALL_PRIVILEGED) # {}

\* The intents values handed in: each member and each union of two members.
Members == {Intents[name] : name \in DOMAIN Intents}
IntentsValues == {Or(a, b) : a, b \in Members}

InitIntents ==
    /\ IdleAio
    /\ IdleLoop
    /\ IdleFactory
    /\ IdleTime
    /\ IdleEmbed
    /\ IdleMessage
    /\ inValue \in IntentsValues
    /\ inFlag \in Members
    /\ inResult = {}
    /\ inpc = "ready"

IsPrivileged ==
    /\ inpc = "ready"
    /\ inResult' = is_privileged(inValue)
    /\ inpc' = "privileged"
    /\ UNCHANGED <<inValue, inFlag>>
    /\ UNCHANGED <<aioVars, dlVars, efVars, tmVars, emVars, meVars>>

\* my_intents ^ f, the documented way of removing f.
RemoveIntents ==
    /\ inpc = "ready"
    /\ inResult' = Xor(inValue, inFlag)
    /\ inpc' = "removed"
    /\ UNCHANGED <<inValue, inFlag>>
    /\ UNCHANGED <<aioVars, dlVars, efVars, tmVars, emVars, meVars>>

NextIntents ==
    \/ IsPrivileged
    \/ RemoveIntents

SpecIntents == InitIntents /\ [][NextIntents]_vars

(***************************************************************************)
(* hikari.embeds: the fields of an embed.                                  *)
(*                                                                         *)
(* An embed is the record of its slots; of the slots that are not the      *)
(* fields the title stands for all.  _fields is None or a list, and a      *)
(* list may be empty.                                                      *)
(***************************************************************************)
\* An argument left at undefined.UNDEFINED, and one that was given.
NotGiven == {}
Given(x) == {x}

\* The value inside an option that has one.
The(option) == CHOOSE x \in option : TRUE

EmbedField(name, value, inline) ==
    [name |-> name, value |-> value, inline |-> inline]

\* Embed(title=title)
Embed(title) == [_title |-> title, _fields |-> None]

\* Embed.from_received_embed(title=title, fields=fields, ...)
from_received_embed(title, fields) == [_title |-> title, _fields |-> fields]

\* The truth value of self._fields: None and the empty list are false.
HasFields(self) == self._fields # None /\ The(self._fields) # <<>>

\* Embed.fields
fields(self) == IF HasFields(self) THEN The(self._fields) ELSE <<>>

\* Whether list[index] exists, and the position it names, counted from 1.
InRange(list, index) == -Len(list) <= index /\ index < Len(list)
Position(list, index) == IF index >= 0 THEN index + 1 ELSE Len(list) + index + 1

\* del list[index]
Delete(list, index) ==
    LET p == Position(list, index) IN
    SubSeq(list, 1, p - 1) \o SubSeq(list, p + 1, Len(list))

\* What a method leaves behind: the embed and the exception it raised.
Outcome(self, raised) == [embed |-> self, raised |-> raised]

add_field(self, name, value, inline) ==
    LET list == IF self._fields = None THEN <<>> ELSE The(self._fields) IN
    Outcome([self EXCEPT !._fields =
                Some(Append(list, EmbedField(name, value, inline)))], "none")

edit_field(self, index, name, value, inline) ==
    IF ~HasFields(self) THEN Outcome(self, "IndexError")
    ELSE LET list == The(self._fields) IN
         IF ~InRange(list, index) THEN Outcome(self, "IndexError")
         ELSE LET p == Position(list, index)
                  field == list[p]
                  edited ==
                      EmbedField(
                          IF name # NotGiven THEN The(name) ELSE field.name,
                          IF value # NotGiven THEN The(value) ELSE field.value,
                          IF inline # NotGiven THEN The(inline) ELSE field.inline)
              IN Outcome([self EXCEPT !._fields = Some([list EXCEPT ![p] = edited])],
                         "none")

remove_field(self, index) ==
    IF HasFields(self) /\ ~InRange(The(self._fields), index)
    THEN Outcome(self, "IndexError")
    ELSE LET deleted ==
                 IF HasFields(self)
                 THEN [self EXCEPT !._fields = Some(Delete(The(self._fields), index))]
                 ELSE self
         IN Outcome(IF ~HasFields(deleted)
                    THEN [deleted EXCEPT !._fields = None] ELSE deleted,
                    "none")

clear_fields(self) == Outcome([self EXCEPT !._fields = None], "none")

\* Embed.__eq__ on two embeds: every slot is equal.
Equal(self, other) ==
    \A slot \in DOMAIN self : self[slot] = other[slot]

\* Most fields an embed is given and most calls made on it.
MaxFields == 2
MaxCalls == 3

Titles == {None, Some("t")}
FieldNames == {"a", "b"}
FieldValues == {"v", "w"}
Indices == (-(MaxFields + 1))..MaxFields

InitEmbed ==
    /\ IdleAio
    /\ IdleLoop
    /\ IdleFactory
    /\ IdleTime
    /\ IdleIntents
    /\ IdleMessage
    /\ \E title \in Titles :
          \/ emEmbed = Embed(title)
          \/ \E received \in {None, Some(<<>>),
                              Some(<<EmbedField("a", "v", FALSE)>>)} :
                emEmbed = from_received_embed(title, received)
    /\ emBefore = emEmbed
    /\ emCall = [op |-> "new"]
    /\ emRaised = "none"
    /\ emCount = 0

\* The embed after a call, with the record of the call.
Called(call, left) ==
    /\ emEmbed' = left.embed
    /\ emRaised' = left.raised
    /\ emBefore' = emEmbed
    /\ emCall' = call
    /\ emCount' = emCount + 1
    /\ UNCHANGED <<aioVars, dlVars, efVars, tmVars, inVars, meVars>>

AddField ==
    /\ emCall # <<>>
    /\ emCount < MaxCalls
    /\ Len(fields(emEmbed)) < MaxFields
    /\ \E name \in FieldNames :
          Called([op |-> "add_field"], add_field(emEmbed, name, "v", FALSE))

EditField ==
    /\ emCall # <<>>
    /\ emCount < MaxCalls
    /\ \E index \in Indices, name \in {NotGiven, Given("b")},
          value \in {NotGiven, Given("w")}, inline \in {NotGiven, Given(TRUE)} :
          Called([op |-> "edit_field", index |-> index],
                 edit_field(emEmbed, index, name, value, inline))

RemoveField ==
    /\ emCall # <<>>
    /\ emCount < MaxCalls
    /\ \E index \in Indices :
          Called([op |-> "remove_field", index |-> index],
                 remove_field(emEmbed, index))

ClearFields ==
    /\ emCall # <<>>
    /\ emCount < MaxCalls
    /\ Called([op |-> "clear_fields"], clear_fields(emEmbed))

NextEmbed ==
    \/ AddField
    \/ EditField
    \/ RemoveField
    \/ ClearFields

SpecEmbed == InitEmbed /\ [][NextEmbed]_vars

(***************************************************************************)
(* hikari.events.message_events: who sent the message of an event.         *)
(*                                                                         *)
(* The message of a create event is whole; the message of an update event  *)
(* is partial, and its author and its webhook id may each be UNDEFINED.    *)
(***************************************************************************)
\* Python's None, a webhook id, a user and a bool.
PyNone == [type |-> "none"]
WebhookId(id) == [type |-> "snowflake", id |-> id]
User(id, is_bot) == [type |-> "user", id |-> id, is_bot |-> is_bot]
Bool(b) == [type |-> "bool", b |-> b]

\* A property that was not read yet.
Unread == [type |-> "unread"]

Message(author, webhook_id) == [author |-> author, webhook_id |-> webhook_id]

\* MessageCreateEvent
create_is_bot(message) == Bool(message.author.is_bot)

create_is_human(message) ==
    Bool(~message.author.is_bot /\ message.webhook_id = PyNone)

create_is_webhook(message) == Bool(message.webhook_id # PyNone)

\* MessageUpdateEvent
update_is_bot(message) ==
    IF message.author # UNDEFINED THEN Bool(message.author.is_bot)
    ELSE UNDEFINED

update_is_human(message) ==
    IF message.webhook_id # UNDEFINED
    THEN Bool(message.webhook_id = PyNone)
    ELSE IF message.author # UNDEFINED
    THEN Bool(~message.author.is_bot)
    ELSE UNDEFINED

update_is_webhook(message) ==
    IF message.webhook_id # UNDEFINED THEN Bool(message.webhook_id # PyNone)
    ELSE UNDEFINED

Users == {User(id, is_bot) : id \in {1, 2}, is_bot \in BOOLEAN}
WebhookIds == {PyNone, WebhookId(7), WebhookId(8)}

InitMessage ==
    /\ IdleAio
    /\ IdleLoop
    /\ IdleFactory
    /\ IdleTime
    /\ IdleIntents
    /\ IdleEmbed
    /\ meKind \in {"create", "update"}
    /\ meAuthor \in Users \cup (IF meKind = "update" THEN {UNDEFINED} ELSE {})
    /\ meWebhook \in
          WebhookIds \cup (IF meKind = "update" THEN {UNDEFINED} ELSE {})
    /\ meIsBot = Unread
    /\ meIsHuman = Unread
    /\ meIsWebhook = Unread

IsBot ==
    /\ meKind # "none"
    /\ meIsBot = Unread
    /\ meIsBot' = IF meKind = "create"
                  THEN create_is_bot(Message(meAuthor, meWebhook))
                  ELSE update_is_bot(Message(meAuthor, meWebhook))
    /\ UNCHANGED <<meKind, meAuthor, meWebhook, meIsHuman, meIsWebhook>>
    /\ UNCHANGED <<aioVars, dlVars, efVars, tmVars, inVars, emVars>>

IsHuman ==
    /\ meKind # "none"
    /\ meIsHuman = Unread
    /\ meIsHuman' = IF meKind = "create"
                    THEN create_is_human(Message(meAuthor, meWebhook))
                    ELSE update_is_human(Message(meAuthor, meWebhook))
    /\ UNCHANGED <<meKind, meAuthor, meWebhook, meIsBot, meIsWebhook>>
    /\ UNCHANGED <<aioVars, dlVars, efVars, tmVars, inVars, emVars>>

IsWebhook ==
    /\ meKind # "none"
    /\ meIsWebhook = Unread
    /\ meIsWebhook' = IF meKind = "create"
                      THEN create_is_webhook(Message(meAuthor, meWebhook))
                      ELSE update_is_webhook(Message(meAuthor, meWebhook))
    /\ UNCHANGED <<meKind, meAuthor, meWebhook, meIsBot, meIsHuman>>
    /\ UNCHANGED <<aioVars, dlVars, efVars, tmVars, inVars, emVars>>

NextMessage ==
    \/ IsBot
    \/ IsHuman
    \/ IsWebhook

SpecMessage == InitMessage /\ [][NextMessage]_vars

(***************************************************************************)
(* Properties of first_completed and all_of                                *)
(***************************************************************************)
Done(p) == prim = p /\ pc = "done"

AllTerminal == \A o \in Ops : fut[o] \in Terminal

\* Every operation ends cancelled when it is cancelled.
WellBehaved == \A o \in Ops : onCancel[o] = "cancelled"

\* C1: when first_completed returns or raises, every operation passed to it
\* is in a terminal state, provided each operation ends cancelled when it is
\* cancelled.
C1_FirstCompletedLeavesAllTerminal ==
    (Done("first_completed") /\ WellBehaved) => AllTerminal

\* The scenario of three operations of which the second fails first: the
\* others were cancelled by the primitive and the failure is raised.
C1_Witness ==
    /\ Done("first_completed")
    /\ WellBehaved
    /\ first = 2
    /\ outcome = OpError(2)
    /\ cancelCalls = Ops \ {2}
    /\ \A o \in Ops \ {2} : fut[o] = "cancelled"

\* C2: the outcome of first_completed is the outcome of the first operation
\* to reach a terminal state: a normal return if it produced a value, its
\* exception if it failed; and first_completed does not return while no
\* operation is terminal and the timeout has not elapsed.
C2_OutcomeIsFirstOutcome ==
    (Done("first_completed") /\ ~wasCancelled /\ ~timedOut /\ ~extCancel) =>
        /\ first # 0
        /\ fut[first] = "result" => outcome = Returned
        /\ fut[first] = "exception" => outcome = OpError(first)

\* The first operation in gather's callback order that failed (0: none).
FirstFailure ==
    LET failed == {i \in 1..Len(order) : fut[order[i]] = "exception"} IN
    IF failed = {} THEN 0
    ELSE order[CHOOSE i \in failed : \A j \in failed : i <= j]

\* C3: if an operation passed to all_of fails, or the timeout elapses, every
\* operation has reached a terminal state when all_of raises, and all_of
\* raises the timeout error or the first failure; with a 0-second timeout and
\* an operation that never completes, all_of raises the timeout error.
C3_AllOfFailureCancelsAll ==
    (Done("all_of") /\ ~wasCancelled /\ ~extCancel) =>
        /\ (timedOut \/ FirstFailure # 0) =>
              /\ AllTerminal
              /\ outcome \in {TimeoutError, OpError(FirstFailure)}
        /\ (timeout = "zero" /\ cancelCalls # {} /\ FirstFailure = 0) =>
              /\ AllTerminal
              /\ outcome = TimeoutError

\* C4: when every operation succeeds, all_of returns one result per operation
\* in argument order, whatever the completion order, and only once all of
\* them have completed.
C4_AllOfResultsInArgumentOrder ==
    Done("all_of") =>
        /\ outcome = Returned =>
              /\ \A o \in Ops : fut[o] = "result"
              /\ Len(retval) = NumOps
              /\ \A i \in 1..NumOps : retval[i] = OpResult(i)
        /\ ((\A o \in Ops : fut[o] = "result") /\ ~wasCancelled /\ ~timedOut
                /\ ~extCancel /\ cancelCalls = {}) => outcome = Returned

\* all_of returned although the last operation passed completed first.
C4_Witness ==
    /\ Done("all_of")
    /\ outcome = Returned
    /\ Len(order) = NumOps
    /\ order[1] = NumOps
    /\ retval[1] = OpResult(1)

\* C5: when the timeout elapses first the primitive raises a timeout error,
\* never a cancellation error and never a normal return; when its caller is
\* cancelled it raises a cancellation error, never a timeout error.
C5_TimeoutAndCancellationDistinct ==
    (pc = "done" /\ ~extCancel) =>
        /\ (timedOut /\ ~wasCancelled) => outcome = TimeoutError
        /\ (wasCancelled /\ ~timedOut) => outcome = CancelledError

\* C6: a primitive that was cancelled before it returned never returns
\* normally (the weakest reading of "completes its cleanup and then raises
\* cancellation to its caller").
C6_CancelledNeverReturns ==
    (pc = "done" /\ wasCancelled /\ ~extCancel) => outcome # Returned

\* C27: on every error path of the primitives the cleanup is complete: when
\* an operation fails first or the timeout elapses, every operation is
\* terminal when the primitive raises and it raises that primary error, also
\* when an operation that is cancelled by the cleanup ends with an exception
\* of its own.
C27_CleanupCompleteOnErrorPaths ==
    (Done("first_completed") /\ ~wasCancelled /\ ~extCancel
        /\ (timedOut \/ (first # 0 /\ fut[first] = "exception"))) =>
        /\ AllTerminal
        /\ outcome = IF first # 0 THEN OpError(first) ELSE TimeoutError

\* C29: first_completed treats the cancellation of one of its operations as
\* its completion: when the first operation to be done was cancelled by
\* somebody else, every operation is terminal when first_completed is over
\* and it raises a cancellation error to its caller.
C29_CancelledOperationCompletes ==
    (Done("first_completed") /\ first # 0 /\ fut[first] = "cancelled") =>
        /\ AllTerminal
        /\ outcome = CancelledError

\* C30: when more than one operation is already done as first_completed is
\* entered, the one that counts as first is the first of them in argument
\* order.
C30_FirstDoneInArgumentOrder ==
    [][(prim = "first_completed" /\ pc = "start" /\ pc' = "wait") =>
          LET done == {o \in Ops : fut[o] # "pending"} IN
          Cardinality(done) > 1 =>
              first' = CHOOSE o \in done : \A p \in done : o <= p]_vars

(***************************************************************************)
(* Properties of destroy_loop                                              *)
(***************************************************************************)
\* C7: after destroy_loop returns the loop has no task in a non-terminal
\* state, however the tasks react to cancellation.
C7_NoTaskLeftRunning ==
    (dlpc = "done" /\ dlOutcome = "return") =>
        \A t \in AllTasks : task[t] # "pending"

\* C8: destroy_loop never raises because of what a cancelled task does: a
\* cancellation is swallowed, any other exception is handed to the loop's
\* exception handler once per failing task, the remaining tasks are drained
\* and the loop is closed.
C8_DestroyLoopNeverRaises ==
    /\ dlOutcome # "raise"
    /\ dlpc = "done" =>
          /\ dlOutcome = "return"
          /\ closed
          /\ \A t \in remaining : task[t] \in TaskTerminal
          /\ \A t \in Tasks :
                handlerCalls[t] =
                    IF t \in remaining /\ task[t] = "exception" THEN 1 ELSE 0

\* C28: destroy_loop performs its steps in a fixed order and reaches the end:
\* the executor is shut down only once every outstanding task is drained,
\* with no outstanding task nothing is cancelled, and whenever destroy_loop
\* is over the loop is closed and unset as the current loop.
C28_DestroyLoopOrderAndEnd ==
    /\ dlpc \in {"executor", "asyncgens", "close"} =>
          /\ \A t \in remaining : mpc[t] = "done"
          /\ ~closed
    /\ (dlpc # "start" /\ remaining = {}) =>
          \A t \in Tasks : mpc[t] = "idle" /\ ~tCancelReq[t]
    /\ dlpc = "done" => (closed /\ ~loopSet)

(***************************************************************************)
(* Properties of the event factory                                         *)
(***************************************************************************)
Decoded(op) == efpc = "decoded" /\ efOp = op

\* The identifier the payload's guild_id stands for.
PayloadGuildId ==
    CASE efPayload["guild_id"].chars = <<1, 7>> -> 17
      [] efPayload["guild_id"].chars = <<0, 4, 2>> -> 42

\* The emoji fragment names the emoji and its id, if any, is an identifier.
EmojiWellFormed ==
    "emoji" \in DOMAIN efPayload =>
        /\ "name" \in DOMAIN efPayload["emoji"].items
        /\ "id" \in DOMAIN efPayload["emoji"].items =>
              efPayload["emoji"].items["id"].type = "null"
              \/ efPayload["emoji"].items["id"].chars # <<>>

GuildIdWellFormed ==
    "guild_id" \in DOMAIN efPayload => efPayload["guild_id"].type = "str"

C9Ops ==
    {"message_delete", "channel_pins_update", "typing_start",
     "message_reaction_remove", "message_reaction_remove_all",
     "message_reaction_remove_emoji", "poll_vote_create", "poll_vote_delete"}

GuildEventClass(op) ==
    CASE op = "message_delete" -> "GuildMessageDeleteEvent"
      [] op = "channel_pins_update" -> "GuildPinsUpdateEvent"
      [] op = "typing_start" -> "GuildTypingEvent"
      [] op = "message_reaction_remove" -> "GuildReactionDeleteEvent"
      [] op = "message_reaction_remove_all" -> "GuildReactionDeleteAllEvent"
      [] op = "message_reaction_remove_emoji" -> "GuildReactionDeleteEmojiEvent"
      [] op = "poll_vote_create" -> "PollVoteCreateEvent"
      [] op = "poll_vote_delete" -> "PollVoteDeleteEvent"

DMEventClass(op) ==
    CASE op = "message_delete" -> "DMMessageDeleteEvent"
      [] op = "channel_pins_update" -> "DMPinsUpdateEvent"
      [] op = "typing_start" -> "DMTypingEvent"
      [] op = "message_reaction_remove" -> "DMReactionDeleteEvent"
      [] op = "message_reaction_remove_all" -> "DMReactionDeleteAllEvent"
      [] op = "message_reaction_remove_emoji" -> "DMReactionDeleteEmojiEvent"
      [] op = "poll_vote_create" -> "PollVoteCreateEvent"
      [] op = "poll_vote_delete" -> "PollVoteDeleteEvent"

\* The keys a payload must carry besides guild_id: a guild typing-start names
\* the member, a DM one the user.
RequiredKeys(op) ==
    IF op = "typing_start"
    THEN {"channel_id", "timestamp"} \cup
            (IF "guild_id" \in DOMAIN efPayload THEN {"member"} ELSE {"user_id"})
    ELSE OpKeys(op) \ {"guild_id"}

\* C9: message-delete, channel-pins-update, typing-start, reaction-remove,
\* reaction-remove-all, reaction-remove-emoji and poll-vote decoding return
\* the guild-scoped event carrying the payload's guild id exactly when the
\* payload has the key guild_id, and the DM-scoped event with no guild id
\* exactly when it lacks the key; a payload with its required keys decodes.
C9_GuildIdDiscriminates ==
    (efpc = "decoded" /\ efOp \in C9Ops) =>
        /\ (RequiredKeys(efOp) \subseteq DOMAIN efPayload
              /\ GuildIdWellFormed /\ EmojiWellFormed) =>
                 efEvent.cls \notin Errors
        /\ efEvent.cls \notin Errors =>
              IF "guild_id" \in DOMAIN efPayload
              THEN /\ efEvent.cls = GuildEventClass(efOp)
                   /\ efEvent.guild_id = {PayloadGuildId}
              ELSE /\ efEvent.cls = DMEventClass(efOp)
                   /\ efEvent.guild_id = {}

\* A typing-start payload with guild_id "042", a member and a user_id was
\* decoded to the guild event of guild 42.
C9_Witness ==
    /\ Decoded("typing_start")
    /\ {"guild_id", "member", "user_id"} \subseteq DOMAIN efPayload
    /\ efPayload["guild_id"].type = "str"
    /\ efPayload["guild_id"].chars = <<0, 4, 2>>
    /\ efEvent.cls = "GuildTypingEvent"
    /\ efEvent.guild_id = {42}

\* C10: reaction-add decoding returns the guild reaction-add event for every
\* payload that has the key guild_id, with or without a member key, and the
\* DM reaction-add event, without raising, for every payload without
\* guild_id.
C10_ReactionAddSameDiscriminator ==
    (Decoded("message_reaction_add")
       /\ {"channel_id", "message_id", "user_id", "emoji"} \subseteq DOMAIN efPayload
       /\ GuildIdWellFormed /\ EmojiWellFormed) =>
          IF "guild_id" \in DOMAIN efPayload
          THEN efEvent.cls = "GuildReactionAddEvent"
          ELSE efEvent.cls = "DMReactionAddEvent"

\* The guild-scoped event classes.
GuildClasses ==
    {"GuildMessageCreateEvent", "GuildMessageUpdateEvent",
     "GuildMessageDeleteEvent", "GuildPinsUpdateEvent", "GuildTypingEvent",
     "GuildReactionAddEvent", "GuildReactionDeleteEvent",
     "GuildReactionDeleteAllEvent", "GuildReactionDeleteEmojiEvent",
     "GuildBulkMessageDeleteEvent"}

\* C11: every guild-scoped event a decode operation returns has a guild id
\* that is present and not null; message-create and message-update return
\* the guild variant only for a message whose guild_id is an id, so the
\* guild_id assertion of the event does not fail.
C11_GuildEventHasGuildId ==
    (efpc = "decoded" /\ efEvent.cls \in GuildClasses) =>
        /\ "guild_id" \in DOMAIN efPayload
        /\ efEvent.guild_id = {PayloadGuildId}
        /\ guild_id_property(efEvent) = "ok"

\* A message-update payload of guild "042" was decoded to the guild event.
C11_Witness ==
    /\ Decoded("message_update")
    /\ efEvent.cls = "GuildMessageUpdateEvent"
    /\ efPayload["guild_id"].chars = <<0, 4, 2>>
    /\ efEvent.guild_id = {42}
    /\ guild_id_property(efEvent) = "ok"

\* C12: thread-list-sync decoding keeps an absent channel_ids apart from
\* an empty one: the event decoded from a payload whose channel_ids is the
\* empty list differs in channel_ids from the event decoded from the same
\* payload without the key.
C12_AbsentAndEmptyChannelIdsDiffer ==
    (Decoded("thread_list_sync") /\ efEvent.cls \notin Errors
        /\ "channel_ids" \in DOMAIN efPayload
        /\ efPayload["channel_ids"] = List(<<>>)) =>
       efEvent.channel_ids #
          deserialize_thread_list_sync_event(
              Without(efPayload, "channel_ids")).channel_ids

ReactionOps ==
    {"message_reaction_add", "message_reaction_remove",
     "message_reaction_remove_emoji"}

\* The identifier the emoji fragment's id stands for.
PayloadEmojiId ==
    CASE efPayload["emoji"].items["id"].chars = <<3>> -> 3
      [] efPayload["emoji"].items["id"].chars = <<0>> -> 0

\* C13: in reaction-add, reaction-remove and reaction-remove-emoji decoding
\* an emoji fragment with an id yields a custom emoji (emoji_id set, name an
\* opaque string), a fragment without an id yields a unicode emoji (emoji_id
\* null, name wrapped as the unicode emoji), and reaction-add classifies
\* every fragment as the helper of the two others does.
C13_EmojiClassifiedById ==
    (efpc = "decoded" /\ efOp \in ReactionOps /\ efEvent.cls \notin Errors) =>
        /\ ("id" \in DOMAIN efPayload["emoji"].items
              /\ efPayload["emoji"].items["id"].type = "str"
              /\ efPayload["emoji"].items["id"].chars # <<>>) =>
                 /\ efEvent.emoji_id = {PayloadEmojiId}
                 /\ efEvent.emoji_name = "custom"
        /\ "id" \notin DOMAIN efPayload["emoji"].items =>
                 /\ efEvent.emoji_id = {}
                 /\ efEvent.emoji_name = "unicode"
        /\ reaction_add_emoji(efPayload["emoji"].items)
              = split_reaction_emoji(efPayload["emoji"].items)

\* The user fragment of the payload.
UserFragment == efPayload["user"].items

\* C14: presence-update decoding constructs a partial user exactly when the
\* user fragment has more than one key; a fragment with a single key yields
\* an event whose user is None.
C14_PartialUserIffSeveralKeys ==
    (Decoded("presence_update") /\ efEvent.cls \notin Errors) =>
        /\ Cardinality(DOMAIN UserFragment) > 1 => efEvent.user # {}
        /\ Cardinality(DOMAIN UserFragment) <= 1 => efEvent.user = {}

\* A presence update whose user fragment holds the id alone was decoded to
\* an event without a user.
C14_Witness ==
    /\ Decoded("presence_update")
    /\ "user" \in DOMAIN efPayload
    /\ DOMAIN UserFragment = {"id"}
    /\ efEvent.cls = "PresenceUpdateEvent"
    /\ efEvent.user = {}

\* The partial user of the decoded event.
DecodedUser == CHOOSE u \in efEvent.user : TRUE

\* C15: in the partial user that presence-update decoding constructs, every
\* field taken from the fragment has the fragment's value (a null stays
\* null) and every field the fragment omits is UNDEFINED, never null.
C15_OmittedFieldsUndefined ==
    (Decoded("presence_update") /\ efEvent.cls \notin Errors
        /\ efEvent.user # {}) =>
        /\ DecodedUser.id.n = 5
        /\ DecodedUser.username =
              (IF "username" \in DOMAIN UserFragment
               THEN UserFragment["username"] ELSE UNDEFINED)
        /\ DecodedUser.avatar_hash =
              (IF "avatar" \in DOMAIN UserFragment
               THEN UserFragment["avatar"] ELSE UNDEFINED)
        /\ DecodedUser.accent_color =
              (IF "accent_color" \notin DOMAIN UserFragment THEN UNDEFINED
               ELSE IF UserFragment["accent_color"].type = "null" THEN Null
               ELSE [type |-> "color", n |-> 255])
        /\ DecodedUser.flags =
              (IF "public_flags" \in DOMAIN UserFragment
               THEN [type |-> "flag", n |-> 64] ELSE UNDEFINED)
        /\ \A f \in {"discriminator", "global_name", "avatar_decoration",
                      "banner_hash", "is_bot", "is_system"} :
              DecodedUser[f] = UNDEFINED

\* The ids the payload's ids field lists.
PayloadMessageIds ==
    CASE efPayload["ids"].items = <<>> -> {}
      [] efPayload["ids"].items = <<Str(<<1, 0>>), Str(<<1, 1>>)>> -> {10, 11}
      [] efPayload["ids"].items = <<Str(<<1, 0>>), Str(<<0, 1, 0>>)>> -> {10}

\* C16: guild bulk-delete decoding returns an event whose message_ids is
\* exactly the set of the ids the payload lists, duplicates collapsed, and
\* whose old_messages is the empty mapping when no old messages were given.
C16_BulkDeleteIds ==
    (Decoded("guild_message_delete_bulk") /\ efEvent.cls \notin Errors) =>
        /\ efEvent.cls = "GuildBulkMessageDeleteEvent"
        /\ efEvent.message_ids = PayloadMessageIds
        /\ efOld = {} => efEvent.old_messages = {}
        /\ efOld = {{10}} => efEvent.old_messages = {10}

\* The payload listing "10" and "11", with no old messages, was decoded to
\* the event of the ids 10 and 11 and no old message.
C16_Witness ==
    /\ Decoded("guild_message_delete_bulk")
    /\ efOld = {}
    /\ efEvent.cls = "GuildBulkMessageDeleteEvent"
    /\ efEvent.message_ids = {10, 11}
    /\ efEvent.old_messages = {}

\* C17: typing-start decoding of a payload with guild_id calls the entity
\* decoder exactly once, for the member and with the payload's guild id, and
\* returns the guild typing event holding the member it got; of a payload
\* without guild_id it makes no entity-decoder call and returns the DM typing
\* event whose user_id is the payload's; in both cases the timestamp is the
\* payload's number of seconds, not of milliseconds, since 1970.
C17_TypingStartCalls ==
    (Decoded("typing_start") /\ RequiredKeys(efOp) \subseteq DOMAIN efPayload
        /\ GuildIdWellFormed) =>
        /\ efEvent.timestamp = {Datetime(efPayload["timestamp"].n, 0)}
        /\ IF "guild_id" \in DOMAIN efPayload
           THEN /\ efEvent.cls = "GuildTypingEvent"
                /\ efMemberCalls =
                      <<MemberCall(efPayload["member"], PayloadGuildId)>>
                /\ efEvent.member =
                      {deserialize_member(efPayload["member"], PayloadGuildId)}
                /\ efEvent.guild_id = {PayloadGuildId}
           ELSE /\ efEvent.cls = "DMTypingEvent"
                /\ efMemberCalls = <<>>
                /\ efEvent.user_id = {5}
                /\ efEvent.member = {}

\* A typing-start payload of guild "17" with a member and the timestamp 2500
\* was decoded with one call of deserialize_member to the guild typing event
\* of 1/1/1970 00:41:40.
C17_Witness ==
    /\ Decoded("typing_start")
    /\ {"guild_id", "member", "timestamp"} \subseteq DOMAIN efPayload
    /\ efPayload["guild_id"] = Str(<<1, 7>>)
    /\ efPayload["timestamp"] = Num(2500)
    /\ efEvent.cls = "GuildTypingEvent"
    /\ Len(efMemberCalls) = 1
    /\ efEvent.timestamp = {Datetime(2500, 0)}

\* The decode call that has just returned, as it is remembered.
ThisDecode ==
    [op |-> efOp, payload |-> efPayload, old |-> efOld, event |-> efEvent]

RequiredBy(op, payload) ==
    CASE op = "message_delete" -> {"channel_id", "id"}
      [] op \in {"message_create", "message_update"} -> {"channel_id", "id"}
      [] op = "presence_update" -> {"user", "guild_id"}
      [] op = "guild_message_delete_bulk" -> {"channel_id", "guild_id", "ids"}
      [] op = "thread_list_sync" -> {"guild_id", "members", "threads"}
      [] op = "channel_pins_update" -> {"channel_id"}
      [] op = "typing_start" ->
            {"channel_id", "timestamp"} \cup
               (IF "guild_id" \in DOMAIN payload THEN {"member"} ELSE {"user_id"})
      [] op = "message_reaction_add" ->
            {"channel_id", "message_id", "emoji"} \cup
               (IF "member" \in DOMAIN payload THEN {"guild_id"} ELSE {"user_id"})
      [] op = "message_reaction_remove" ->
            {"channel_id", "message_id", "user_id", "emoji"}
      [] op = "message_reaction_remove_all" -> {"channel_id", "message_id"}
      [] op = "message_reaction_remove_emoji" ->
            {"channel_id", "message_id", "emoji"}
      [] op \in {"poll_vote_create", "poll_vote_delete"} ->
            {"user_id", "channel_id", "message_id", "answer_id"}

\* C19: a decode of a payload that lacks a required key raises the KeyError
\* to its caller and returns no event, not even a partial one; the factory
\* is as it was constructed after it, and every decode after a failed one
\* returns what a factory that never failed returns for its payload.
C19_FailurePropagatesAndIsLocal ==
    efpc = "decoded" =>
        /\ ~(RequiredBy(efOp, efPayload) \subseteq DOMAIN efPayload) =>
              efEvent = Raise("KeyError")
        /\ RequiredBy(efOp, efPayload) \subseteq DOMAIN efPayload =>
              efEvent.cls \notin Errors
        /\ efApp = "app"
        /\ efFailed => efEvent = Deserialize(efOp, efPayload, efOld)

\* After a decode that raised, a message-delete payload of a guild was
\* decoded to its event.
C19_Witness ==
    /\ Decoded("message_delete")
    /\ efFailed
    /\ efCount >= 2
    /\ efEvent.cls = "GuildMessageDeleteEvent"
    /\ efEvent.message_id = {8}

(***************************************************************************)
(* hikari.internal.time                                                    *)
(***************************************************************************)
\* C20: datetime_to_discord_epoch(discord_epoch_to_datetime(x)) = x for
\* every integer millisecond epoch x >= 0 the calendar can represent.
C20_EpochRoundTrip ==
    tmpc = "epoch" => tmResult = tmEpoch

\* The epoch handed to unix_epoch_to_datetime lies beyond what the calendar
\* can represent.
OutOfRange ==
    AtLeast(WholeSeconds(tmEpoch, tmEpoch.is_millis),
            IF tmEpoch.sign > 0 THEN CalendarAbove ELSE CalendarBelow)

\* C21: unix_epoch_to_datetime never raises: for an epoch too large or too
\* negative for the calendar, in seconds or in milliseconds, it returns
\* datetime.max when the epoch is positive and datetime.min otherwise.
C21_OutOfRangeClamped ==
    (tmpc = "returned" /\ OutOfRange) =>
        tmDatetime = IF tmEpoch.sign > 0 THEN DatetimeMax ELSE DatetimeMin

(***************************************************************************)
(* hikari.intents                                                          *)
(***************************************************************************)
\* The single-bit members of Intents.
SingleBit == {m \in Members : Cardinality(m) = 1}

\* C22: the intents are partitioned by privilege.  is_privileged is true
\* for a value exactly when it shares a bit with GUILD_MEMBERS,
\* GUILD_PRESENCES or MESSAGE_CONTENT, which make up ALL_PRIVILEGED;
\* ALL_UNPRIVILEGED is not privileged and contains every single-bit member
\* that is not privileged; ALL_UNPRIVILEGED and ALL_PRIVILEGED share no bit
\* and their union ALL contains every member.
C22_PartitionedByPrivilege ==
    inpc = "privileged" =>
        /\ inResult <=> \E m \in {Intents.GUILD_MEMBERS, Intents.GUILD_PRESENCES,
                                  Intents.MESSAGE_CONTENT} : m \subseteq inValue
        /\ Intents.ALL_PRIVILEGED =
              UNION {Intents.GUILD_MEMBERS, Intents.GUILD_PRESENCES,
                     Intents.MESSAGE_CONTENT}
        /\ inValue = Intents.ALL_UNPRIVILEGED => ~inResult
        /\ (inValue \in SingleBit /\ ~inResult) =>
              inValue \subseteq Intents.ALL_UNPRIVILEGED
        /\ Intents.ALL_UNPRIVILEGED \cap Intents.ALL_PRIVILEGED = {}
        /\ Intents.ALL = Intents.ALL_UNPRIVILEGED \cup Intents.ALL_PRIVILEGED
        /\ \A m \in Members : m \subseteq Intents.ALL

\* is_privileged answered true for the union of an unprivileged intent and
\* MESSAGE_CONTENT, and false for ALL_UNPRIVILEGED.
C22_Witness ==
    /\ inpc = "privileged"
    /\ inValue = Or(Intents.GUILDS, Intents.MESSAGE_CONTENT)
    /\ inResult = TRUE

\* C25: removing intents with ^ works as the Intents documentation says:
\* for every value x and every intent or combination f, x ^ f has none of
\* the bits of f.
C25_XorRemoves ==
    inpc = "removed" => And(inResult, inFlag) = {}

(***************************************************************************)
(* hikari.embeds                                                           *)
(***************************************************************************)
\* C23: an embed with no fields is the same to an observer whether fields
\* were never set or were emptied: after any calls of add_field, edit_field,
\* remove_field and clear_fields that leave no field, and for an embed
\* received with an empty field list, fields is the empty sequence and the
\* embed equals an embed with the same title that never had a field.
C23_EmptyFieldsIndistinguishable ==
    (emCall # <<>> /\ ~HasFields(emEmbed)) =>
        /\ fields(emEmbed) = <<>>
        /\ Equal(emEmbed, Embed(emEmbed._title))

\* C26: remove_field(index) raises IndexError for every index greater than
\* len(fields) - 1 or less than -len(fields), every index on an embed
\* without fields included, and then leaves the fields as they were; for an
\* index in range it removes exactly that field and keeps the order of the
\* others.
C26_RemoveFieldIndexError ==
    (emCall # <<>> /\ emCall.op = "remove_field") =>
        LET before == fields(emBefore)
            n == Len(before)
            i == emCall.index
            p == IF i >= 0 THEN i + 1 ELSE n + i + 1
        IN  IF i > n - 1 \/ i < -n
            THEN emRaised = "IndexError" /\ fields(emEmbed) = before
            ELSE /\ emRaised = "none"
                 /\ fields(emEmbed) =
                       [k \in 1..(n - 1) |->
                           IF k < p THEN before[k] ELSE before[k + 1]]

(***************************************************************************)
(* hikari.events.message_events                                            *)
(***************************************************************************)
\* C24: is_human is "not a bot and no webhook id" on both message events:
\* on a create event always, and on an update event whose author and
\* webhook id are both known, is_human is true exactly when the author is
\* not a bot and the webhook id is None; is_human and is_webhook are never
\* both true.
C24_IsHumanHeuristic ==
    meIsHuman # Unread =>
        /\ (meKind = "create" \/ (meAuthor # UNDEFINED /\ meWebhook # UNDEFINED))
              => meIsHuman = Bool(~meAuthor.is_bot /\ meWebhook = PyNone)
        /\ ~(meIsHuman = Bool(TRUE) /\ meIsWebhook = Bool(TRUE))

====
